---- MODULE Spec2Model ----
(***************************************************************************)
(* A model of the analysis core of texlab: the LaTeX parser               *)
(* (src/syntax/latex/parser.rs), the section tree of the outline          *)
(* (src/features/symbol/section/mod.rs) and the snapshot handling of the  *)
(* language server (src/server.rs).                                       *)
(*                                                                         *)
(* Positions are modelled as natural numbers (the offset of a position in *)
(* the text): the code only compares positions and copies them.  A range  *)
(* is a pair <<start, end>>.                                              *)
(***************************************************************************)
EXTENDS Integers, Sequences, FiniteSets, TLC

VARIABLES
    \* ---- Parser<I> (parser.rs:20-23) and its call stack
    tokens,     \* the token sequence handed to Parser::new
    pos,        \* index of the token that tokens.peek() returns
    tree,       \* Ast<Node>: the arena, a sequence of nodes
    edges,      \* the edges of the arena, in the order add_edge made them
    stack,      \* the call stack of parse/content/group/command/text
    pc,         \* "idle" | "new" | "run" | "done" | "panic"
    root,       \* Tree.root (0 until parse returns)
    \* ---- find_section_symbols / build_section_tree (section/mod.rs)
    content,      \* ctx.inner.current().content: "Latex" | "Bibtex"
    sections,     \* table.sections, in source order
    environments, \* table.environments
    labels,       \* table.labels, in source order, each with its outline entry
    sectionTree,  \* LatexSectionTree: [symbols, children]
    sphase,       \* the statement find_section_symbols has reached
    inserted,     \* sections that From<&SymbolTable> has inserted
    placed,       \* the symbols handed to insert_symbol so far, in order
    items,        \* ctx.items, the output
    \* ---- LatexLspServer (server.rs) and its Workspace
    store,      \* the Snapshot values that exist, by identity
    current,    \* the Snapshot the Workspace holds now
    options,    \* the Options the ConfigManager stores
    reqs,       \* the requests in flight, each with its position
    note,       \* the last notification handled, where a session is recorded
    \* ---- Workspace (crate::workspace, used by feature.rs and server.rs)
    documents,  \* Workspace.documents, the documents in the order they came
    ruri,       \* the argument of related_documents
    rstack,     \* related_documents: the documents still to look at
    visited,    \* related_documents: the visited set
    results,    \* related_documents: the result vector
    rpc,        \* related_documents: "idle" | "call" | "loop" | "done"
    snapshots,  \* the Snapshots that Workspace::get has handed out
    \* ---- tasks on BuildEngine (build.rs), ConfigManager (config.rs) and
    \* ActionManager (server.rs:725-740), with their futures::lock::Mutex
    tasks,            \* the tasks: operation, position, arguments, result
    locks,            \* for every Mutex the task that holds it, 0 for none
    handles_by_token, \* BuildEngine.handles_by_token, its keys
    current_docs,     \* BuildEngine.current_docs
    aborted,          \* the tokens whose AbortHandle was aborted
    progress,         \* the progress messages sent to the client, in their order
    processes,        \* the tokens for which a build process was started
    actions,          \* ActionManager.actions
    capabilities,     \* the ClientCapabilities the server was initialized with
    pushed,           \* history: the actions pushed to the ActionManager, in order
    taken             \* history: the batches that take() returned, in order

parserVars == <<tokens, pos, tree, edges, stack, pc, root>>

sectionVars == <<content, sections, environments, labels, sectionTree, sphase, inserted,
                 placed, items>>

serverVars == <<store, current, options, reqs, note>>

workspaceVars == <<documents, ruri, rstack, visited, results, rpc, snapshots>>

taskVars == <<tasks, locks, handles_by_token, current_docs, aborted, progress,
              processes, actions, capabilities, pushed, taken>>

coreVars == <<workspaceVars, taskVars>>

vars == <<parserVars, sectionVars, serverVars, coreVars>>

(***************************************************************************)
(* Bounds of the model.                                                    *)
(***************************************************************************)
MaxTokens == 4      \* longest token sequence handed to the parser

(***************************************************************************)
(* Tokens (syntax/latex/ast.rs, used by parser.rs).                        *)
(***************************************************************************)
TokenKind == {"Word", "Command", "Comma", "Math",
              "BeginGroup", "EndGroup", "BeginOptions", "EndOptions"}

Scope == {"Root", "Group", "Options"}

GroupKind == {"Group", "Options"}

\* Option<Token>::None, and the absent node index
NoToken == 0

\* Range::new_simple(0, 0, 0, 0)
EmptyRange == <<0, 0>>

\* Token sequences with source-ordered, non-overlapping ranges: token i
\* covers one position, and gap positions of white space follow it.
TokenSeq(kinds, gap) ==
    [i \in 1..Len(kinds) |->
        [kind |-> kinds[i], start |-> (i - 1) * (1 + gap), end |-> (i - 1) * (1 + gap) + 1]]

KindSeqs == UNION {[1..n -> TokenKind] : n \in 0..MaxTokens}

(***************************************************************************)
(* The arena (Ast<Node>) and the nodes of ast.rs.  Every node is a record  *)
(* of the same shape; fields a variant does not have hold NoToken / <<>>.  *)
(* Tokens are named by their index in tokens.                              *)
(***************************************************************************)
MkNode(type, range) ==
    [type |-> type, range |-> range, kind |-> "None",
     left |-> NoToken, right |-> NoToken, name |-> NoToken,
     words |-> <<>>, token |-> NoToken]

NodeStart(n) == tree[n].range[1]

NodeEnd(n) == tree[n].range[2]

\* Parser::connect: one edge per child, in order
Connect_DropLast(parent, children) ==
    [i \in 1..(Len(children) - 1) |-> <<parent, children[i]>>]

Connect(parent, children) ==
    [i \in 1..Len(children) |-> <<parent, children[i]>>]

(***************************************************************************)
(* Stack frames.  fn names the function, scope/kind/tok its arguments and  *)
(* first local, children/words its accumulating vector, ret whether the    *)
(* nested content() call of group()/parse() has returned.                  *)
(***************************************************************************)
Frame(fn, scope, kind, tok) ==
    [fn |-> fn, scope |-> scope, kind |-> kind, tok |-> tok,
     children |-> <<>>, words |-> <<>>, ret |-> FALSE]

Top == stack[Len(stack)]

Pop == SubSeq(stack, 1, Len(stack) - 1)

\* the callee's result is pushed on the caller's children vector
PushChild(stk, node) == [stk EXCEPT ![Len(stk)].children = Append(@, node)]

\* self.tokens.peek(): the index of the next token, NoToken at the end
Peek == IF pos <= Len(tokens) THEN pos ELSE NoToken

PeekKind == IF Peek = NoToken THEN "None" ELSE tokens[Peek].kind

\* group(): the scope of the nested content() call (lines 92-95)
ScopeOf_Options(kind) == "Options"

ScopeOf(kind) == IF kind = "Group" THEN "Group" ELSE "Options"

\* group(): the closing delimiter that is expected (lines 98-101)
RightKind_EndGroup(kind) == "EndGroup"

RightKind(kind) == IF kind = "Group" THEN "EndGroup" ELSE "EndOptions"

\* text(): the tokens a text run takes (lines 151-153)
TextAccepts_NoStray(kind, scope) ==
    kind = "Word" \/ kind = "BeginOptions"

TextAccepts_WordOnly(kind, scope) == kind = "Word"

TextAccepts(kind, scope) ==
    LET opts == kind = "EndOptions" /\ scope # "Options"
    IN  kind = "Word" \/ kind = "BeginOptions" \/ opts

\* group(): the end of the group's range (lines 109-113)
GroupEnd_IgnoreChildren(left, right, children) ==
    IF right # NoToken THEN tokens[right].end
    ELSE tokens[left].end

GroupEnd_FirstChild(left, right, children) ==
    IF right # NoToken THEN tokens[right].end
    ELSE IF children # <<>> THEN NodeEnd(children[1])
    ELSE tokens[left].end

GroupEnd(left, right, children) ==
    IF right # NoToken THEN tokens[right].end
    ELSE IF children # <<>> THEN NodeEnd(children[Len(children)])
    ELSE tokens[left].end

\* command(): the end of the command's range (lines 137-140)
CommandEnd_FirstChild(name, children) ==
    IF children # <<>> THEN NodeEnd(children[1])
    ELSE tokens[name].end

CommandEnd(name, children) ==
    IF children # <<>> THEN NodeEnd(children[Len(children)])
    ELSE tokens[name].end

\* parse(): the range of the root (lines 36-42)
RootRange_FirstChild(children) ==
    IF children = <<>> THEN EmptyRange
    ELSE <<NodeStart(children[1]), NodeEnd(children[1])>>

RootRange(children) ==
    IF children = <<>> THEN EmptyRange
    ELSE <<NodeStart(children[1]), NodeEnd(children[Len(children)])>>

(***************************************************************************)
(* The parser, one action per step of parser.rs.  A panic (unwrap of None, *)
(* index out of bounds) moves pc to "panic".                               *)
(***************************************************************************)
Running(fn) == pc = "run" /\ stack # <<>> /\ Top.fn = fn

Panic ==
    /\ pc' = "panic"
    /\ UNCHANGED <<tokens, pos, tree, edges, stack, root>>

\* the call of group(kind): left = next().unwrap(), then content(scope)
CallGroup(kind) ==
    IF Peek = NoToken THEN Panic
    ELSE /\ stack' = stack \o <<Frame("group", "None", kind, Peek),
                                Frame("content", ScopeOf(kind), "None", NoToken)>>
         /\ pos' = pos + 1
         /\ UNCHANGED <<tokens, tree, edges, pc, root>>

\* the call of text(scope)
CallText(scope) ==
    /\ stack' = Append(stack, Frame("text", scope, "None", NoToken))
    /\ UNCHANGED <<tokens, pos, tree, edges, pc, root>>

\* content() returns its children to group() or parse()
ContentReturn ==
    /\ stack' = [Pop EXCEPT ![Len(stack) - 1].children = Top.children,
                            ![Len(stack) - 1].ret = TRUE]
    /\ UNCHANGED <<tokens, pos, tree, edges, pc, root>>

\* comma() and math(): a leaf node holding one token
LeafNode_AnyPlace(type) ==
    IF Peek = NoToken THEN Panic
    ELSE /\ tree' = Append(tree, [MkNode(type, <<tokens[Peek].start, tokens[Peek].end>>)
                                    EXCEPT !.token = Peek])
         /\ stack' \in {PushChild(stack, Len(tree) + 1),
                        [stack EXCEPT ![Len(stack)].children = <<Len(tree) + 1>> \o @]}
         /\ pos' = pos + 1
         /\ UNCHANGED <<tokens, edges, pc, root>>

LeafNode(type) ==
    IF Peek = NoToken THEN Panic
    ELSE /\ tree' = Append(tree, [MkNode(type, <<tokens[Peek].start, tokens[Peek].end>>)
                                    EXCEPT !.token = Peek])
         /\ stack' = PushChild(stack, Len(tree) + 1)
         /\ pos' = pos + 1
         /\ UNCHANGED <<tokens, edges, pc, root>>

\* parse(): let children = self.content(Scope::Root)
parse_call ==
    /\ pc = "new"
    /\ pc' = "run"
    /\ stack' = <<Frame("parse", "None", "None", NoToken),
                  Frame("content", "Root", "None", NoToken)>>
    /\ UNCHANGED <<tokens, pos, tree, edges, root>>
    /\ UNCHANGED <<sectionVars, serverVars, coreVars>>

\* content(): TokenKind::Word | TokenKind::BeginOptions
content_text ==
    /\ Running("content")
    /\ PeekKind \in {"Word", "BeginOptions"}
    /\ CallText(Top.scope)
    /\ UNCHANGED <<sectionVars, serverVars, coreVars>>

\* content(): TokenKind::Command, and command()'s name = next().unwrap()
content_command ==
    /\ Running("content")
    /\ PeekKind = "Command"
    /\ stack' = Append(stack, Frame("command", "None", "None", Peek))
    /\ pos' = pos + 1
    /\ UNCHANGED <<tokens, tree, edges, pc, root>>
    /\ UNCHANGED <<sectionVars, serverVars, coreVars>>

\* content(): TokenKind::Comma
content_comma ==
    /\ Running("content")
    /\ PeekKind = "Comma"
    /\ LeafNode("Comma")
    /\ UNCHANGED <<sectionVars, serverVars, coreVars>>

\* content(): TokenKind::Math
content_math ==
    /\ Running("content")
    /\ PeekKind = "Math"
    /\ LeafNode("Math")
    /\ UNCHANGED <<sectionVars, serverVars, coreVars>>

\* content(): TokenKind::BeginGroup
content_group ==
    /\ Running("content")
    /\ PeekKind = "BeginGroup"
    /\ CallGroup("Group")
    /\ UNCHANGED <<sectionVars, serverVars, coreVars>>

\* content(): TokenKind::EndGroup in Root scope is consumed
StrayCloser_Keep(p) == p

StrayCloser_SkipNext(p) == p + 2

StrayCloser(p) == p + 1

content_end_group ==
    /\ Running("content")
    /\ PeekKind = "EndGroup"
    /\ IF Top.scope = "Root"
       THEN /\ pos' = StrayCloser(pos)
            /\ UNCHANGED <<tokens, tree, edges, stack, pc, root>>
       ELSE ContentReturn
    /\ UNCHANGED <<sectionVars, serverVars, coreVars>>

\* content(): TokenKind::EndOptions returns only when scope == Scope::Options
EndsOptions_Nested(scope) == scope # "Root"

EndsOptions(scope) == scope = "Options"

content_end_options ==
    /\ Running("content")
    /\ PeekKind = "EndOptions"
    /\ IF EndsOptions(Top.scope)
       THEN ContentReturn
       ELSE CallText(Top.scope)
    /\ UNCHANGED <<sectionVars, serverVars, coreVars>>

\* content(): the token stream is exhausted
content_eof ==
    /\ Running("content")
    /\ Peek = NoToken
    /\ ContentReturn
    /\ UNCHANGED <<sectionVars, serverVars, coreVars>>

\* group(): after content() returned, lines 98-123
group_finish ==
    /\ Running("group")
    /\ Top.ret
    /\ LET right == IF PeekKind = RightKind(Top.kind) THEN Peek ELSE NoToken
           range == <<tokens[Top.tok].start, GroupEnd(Top.tok, right, Top.children)>>
           node  == Len(tree) + 1
       IN  /\ pos' = IF right # NoToken THEN pos + 1 ELSE pos
           /\ tree' = Append(tree, [MkNode("Group", range) EXCEPT
                                       !.left = Top.tok, !.kind = Top.kind, !.right = right])
           /\ edges' = edges \o Connect(node, Top.children)
           /\ stack' = PushChild(Pop, node)
    /\ UNCHANGED <<tokens, pc, root>>
    /\ UNCHANGED <<sectionVars, serverVars, coreVars>>

\* command(): the loop over the argument groups, lines 129-135
command_group ==
    /\ Running("command")
    /\ PeekKind = "BeginGroup"
    /\ CallGroup("Group")
    /\ UNCHANGED <<sectionVars, serverVars, coreVars>>

command_options ==
    /\ Running("command")
    /\ PeekKind = "BeginOptions"
    /\ CallGroup("Options")
    /\ UNCHANGED <<sectionVars, serverVars, coreVars>>

\* command(): the loop breaks, lines 137-145
command_finish ==
    /\ Running("command")
    /\ PeekKind \notin {"BeginGroup", "BeginOptions"}
    /\ LET range == <<tokens[Top.tok].start, CommandEnd(Top.tok, Top.children)>>
           node  == Len(tree) + 1
       IN  /\ tree' = Append(tree, [MkNode("Command", range) EXCEPT !.name = Top.tok])
           /\ edges' = edges \o Connect(node, Top.children)
           /\ stack' = PushChild(Pop, node)
    /\ UNCHANGED <<tokens, pos, pc, root>>
    /\ UNCHANGED <<sectionVars, serverVars, coreVars>>

\* text(): words.push(self.tokens.next().unwrap()), line 154
PushWord_First(words, tok) == IF words = <<>> THEN <<tok>> ELSE words

PushWord(words, tok) == Append(words, tok)

\* text(): one iteration of the loop, lines 150-154
text_loop ==
    /\ Running("text")
    /\ Peek # NoToken
    /\ TextAccepts(PeekKind, Top.scope)
    /\ stack' = [stack EXCEPT ![Len(stack)].words = PushWord(@, Peek)]
    /\ pos' = pos + 1
    /\ UNCHANGED <<tokens, tree, edges, pc, root>>
    /\ UNCHANGED <<sectionVars, serverVars, coreVars>>

\* text(): the loop breaks, lines 155-160; words[0] panics on no words
text_finish ==
    /\ Running("text")
    /\ ~(Peek # NoToken /\ TextAccepts(PeekKind, Top.scope))
    /\ IF Top.words = <<>> THEN Panic
       ELSE LET words == Top.words
                range == <<tokens[words[1]].start, tokens[words[Len(words)]].end>>
            IN  /\ tree' = Append(tree, [MkNode("Text", range) EXCEPT !.words = words])
                /\ stack' = PushChild(Pop, Len(tree) + 1)
                /\ UNCHANGED <<tokens, pos, edges, pc, root>>
    /\ UNCHANGED <<sectionVars, serverVars, coreVars>>

\* parse(): after content() returned, lines 36-49
parse_finish ==
    /\ Running("parse")
    /\ Top.ret
    /\ LET node == Len(tree) + 1
       IN  /\ tree' = Append(tree, MkNode("Root", RootRange(Top.children)))
           /\ edges' = edges \o Connect(node, Top.children)
           /\ root' = node
    /\ stack' = <<>>
    /\ pc' = "done"
    /\ UNCHANGED <<tokens, pos>>
    /\ UNCHANGED <<sectionVars, serverVars, coreVars>>

\* the values of the other components while the parser is looked at
SectionIdle ==
    /\ content = "Latex"
    /\ sections = <<>>
    /\ environments = <<>>
    /\ labels = <<>>
    /\ sectionTree = [symbols |-> <<>>, children |-> <<>>]
    /\ sphase = "idle"
    /\ inserted = 0
    /\ placed = <<>>
    /\ items = <<>>

ServerIdle ==
    /\ store = <<>>
    /\ current = 0
    /\ options = [forward_search_after |-> FALSE]
    /\ reqs = <<>>
    /\ note = <<>>

WorkspaceIdle ==
    /\ documents = <<>>
    /\ ruri = ""
    /\ rstack = <<>>
    /\ visited = {}
    /\ results = <<>>
    /\ rpc = "idle"
    /\ snapshots = {}

TaskIdle ==
    /\ tasks = <<>>
    /\ locks = <<>>
    /\ handles_by_token = {}
    /\ current_docs = {}
    /\ aborted = {}
    /\ progress = <<>>
    /\ processes = {}
    /\ actions = <<>>
    /\ capabilities = <<>>
    /\ pushed = <<>>
    /\ taken = <<>>

CoreIdle == WorkspaceIdle /\ TaskIdle

\* Parser::new(tokens), for every token sequence within the bound
ParserInit ==
    /\ tokens \in {TokenSeq(k, g) : k \in KindSeqs, g \in {0, 1}}
    /\ pos = 1
    /\ tree = <<>>
    /\ edges = <<>>
    /\ stack = <<>>
    /\ pc = "new"
    /\ root = 0
    /\ SectionIdle
    /\ ServerIdle
    /\ CoreIdle

ParserNext ==
    \/ parse_call
    \/ content_text
    \/ content_command
    \/ content_comma
    \/ content_math
    \/ content_group
    \/ content_end_group
    \/ content_end_options
    \/ content_eof
    \/ group_finish
    \/ command_group
    \/ command_options
    \/ command_finish
    \/ text_loop
    \/ text_finish
    \/ parse_finish

ParserSpec == ParserInit /\ [][ParserNext]_vars

\* the parser is a sequential program: it takes its next step when it has one
ParserFairSpec == ParserSpec /\ WF_vars(ParserNext)

(***************************************************************************)
(* Properties of the parser.                                               *)
(***************************************************************************)
Nodes == 1..Len(tree)

EdgeSet == {edges[i] : i \in 1..Len(edges)}

ChildrenOf(n) == {e[2] : e \in {d \in EdgeSet : d[1] = n}}

\* the number of edges that end in n
InDegree(n) == Cardinality({i \in 1..Len(edges) : edges[i][2] = n})

\* the nodes reached from the nodes of S along at most k edges
RECURSIVE ReachFrom(_, _)
ReachFrom(S, k) ==
    IF k = 0 THEN S
    ELSE ReachFrom(S \cup UNION {ChildrenOf(n) : n \in S}, k - 1)

RootNodes == {n \in Nodes : tree[n].type = "Root"}

\* C1: for every finite token sequence, however unbalanced, parse never
\* panics, terminates, and returns a tree with exactly one Root node.
C1_ParserTotal ==
    /\ [](pc # "panic")
    /\ <>(pc = "done")
    /\ [](pc = "done" => /\ Cardinality(RootNodes) = 1
                         /\ RootNodes = {root})

\* parse has returned on an input with a stray closer first, an option
\* bracket outside options, and a group that is never closed
C1_Witness ==
    /\ pc = "done"
    /\ Len(tokens) >= 3
    /\ tokens[1].kind = "EndGroup"
    /\ \E i \in 1..Len(tokens) : tokens[i].kind = "EndOptions"
    /\ \E n \in Nodes : tree[n].type = "Group" /\ tree[n].right = NoToken

\* C2: the range of every node that has a parent is contained in the range
\* of the parent, also for groups whose closing delimiter is missing.
C2_RangeContainment ==
    \A i \in 1..Len(edges) :
        LET p == edges[i][1]
            c == edges[i][2]
        IN  /\ tree[p].range[1] <= tree[c].range[1]
            /\ tree[c].range[2] <= tree[p].range[2]

\* a finished tree in which an unclosed group has a child that itself has
\* a child
C2_Witness ==
    /\ pc = "done"
    /\ \E g \in Nodes :
        /\ tree[g].type = "Group"
        /\ tree[g].right = NoToken
        /\ \E c \in ChildrenOf(g) : ChildrenOf(c) # {}

\* the smallest start and the largest end among the nodes of S
UnionRange(S) ==
    <<CHOOSE a \in {tree[n].range[1] : n \in S} :
          \A n \in S : a <= tree[n].range[1],
      CHOOSE b \in {tree[n].range[2] : n \in S} :
          \A n \in S : tree[n].range[2] <= b>>

\* C3: the range of the Root is the union of the ranges of its children,
\* and (0,0)-(0,0) when it has none.
C3_RootRange ==
    pc = "done" =>
        tree[root].range = IF ChildrenOf(root) = {} THEN EmptyRange
                           ELSE UnionRange(ChildrenOf(root))

\* the input holds stray closing braces only: the Root has no children and
\* the empty range, though the input is not empty
C3_Witness ==
    /\ pc = "done"
    /\ Len(tokens) >= 2
    /\ \A i \in 1..Len(tokens) : tokens[i].kind = "EndGroup"
    /\ ChildrenOf(root) = {}
    /\ tree[root].range = EmptyRange

\* C4: the edges form a tree: every node but the Root has exactly one
\* parent, the Root has none, no node is its own descendant, and every
\* node of the arena is reached from the Root.
C4_EdgesFormTree ==
    pc = "done" =>
        /\ InDegree(root) = 0
        /\ \A n \in Nodes \ {root} : InDegree(n) = 1
        /\ \A n \in Nodes : n \notin ReachFrom(ChildrenOf(n), Len(tree))
        /\ ReachFrom({root}, Len(tree)) = Nodes

\* a finished tree of depth three whose Root has two children or more
C4_Witness ==
    /\ pc = "done"
    /\ Cardinality(ChildrenOf(root)) >= 2
    /\ \E c \in ChildrenOf(root) : \E d \in ChildrenOf(c) : ChildrenOf(d) # {}

(***************************************************************************)
(* The section tree of the outline (features/symbol/section/mod.rs).       *)
(*                                                                         *)
(* A symbol table is drawn as follows.  Section i is the command that      *)
(* covers position 3i-2; positions 0, 3i-1 and 3i hold no section, and     *)
(* labels, environments and other symbols start there; the text ends       *)
(* behind the last of them.  Only the order of positions is read.          *)
(***************************************************************************)
MaxSections == 3    \* longest table.sections, and the number of levels
MaxSymbols == 1     \* most symbols other than sections
MaxLabelledSections == 2  \* longest table.sections of a table with labels
MaxLabels == 2      \* longest table.labels

Titles == {"A", "B"}

SectionStart(i) == 3 * i - 2

\* the section tables with n sections, their levels in 1..L, whose titles
\* come from T.  Levels are only compared and titles only tested for
\* equality, so the levels in use are 1..k for some k, and the first
\* section is titled "A".
SectionTables(n, L, T) ==
    {[i \in 1..n |-> [level |-> lv[i], title |-> ti[i],
                      range |-> <<SectionStart(i), SectionStart(i) + 1>>]] :
        lv \in {l \in [1..n -> 1..L] :
                  \A i \in 1..n : l[i] > 1 => \E j \in 1..n : l[j] = l[i] - 1},
        ti \in {t \in [1..n -> T] : n >= 1 => t[1] = "A"}}

\* the positions at which something other than a section starts
FreePositions == {0} \cup UNION {{3 * i - 1, 3 * i} : i \in 1..Len(sections)}

\* CharStream.current_position after the last character of the text
TextEnd == 3 * Len(sections) + 1

\* Option<String>
None == <<>>

Some(x) == <<x>>

\* RangeExt::contains, by the position convention: start <= p < end
Contains(range, p) == range[1] <= p /\ p < range[2]

\* OutlineContext::parse: the entry of the label to number mapping for a
\* label, None when the label has none
NoEntry == [kind |-> "None", text |-> "", number |-> None]

OutlineEntries ==
    {NoEntry}
    \cup {[kind |-> k, text |-> t, number |-> Some("2.1")] :
            k \in {"Section", "Caption"}, t \in Titles}

OutlineContext_parse(label) == label.entry

\* LatexSectionNode::new
LatexSectionNode_new(s) ==
    [section |-> s, full_range |-> <<0, 0>>, label |-> None, number |-> None,
     symbols |-> <<>>, children |-> <<>>]

\* LatexSectionNode::name: the printed title of the section
name(node) == sections[node.section].title

\* the start of the section command of a node
StartOf(node) == sections[node.section].range[1]

\* insert_section: the test that sends a section below the last node
IsBelow_OrEqual(parentLevel, level) == parentLevel <= level

IsBelow(parentLevel, level) == parentLevel < level

\* LatexSectionNode::insert_section
RECURSIVE insert_section(_, _)
insert_section(nodes, s) ==
    IF nodes = <<>> THEN <<LatexSectionNode_new(s)>>
    ELSE LET parent == nodes[Len(nodes)]
         IN  IF IsBelow(sections[parent.section].level, sections[s].level)
             THEN [nodes EXCEPT ![Len(nodes)].children = insert_section(@, s)]
             ELSE Append(nodes, LatexSectionNode_new(s))

\* set_full_range: the end of children[i]
CurrentEnd_Always(children, i, end_position) == end_position

CurrentEnd(children, i, end_position) ==
    IF i + 1 <= Len(children) THEN StartOf(children[i + 1]) ELSE end_position

\* LatexSectionNode::set_full_range
RECURSIVE set_full_range(_, _)
set_full_range(children, end_position) ==
    [i \in 1..Len(children) |->
        LET current_end == CurrentEnd(children, i, end_position)
        IN  [children[i] EXCEPT
                !.full_range = <<StartOf(children[i]), current_end>>,
                !.children = set_full_range(@, current_end)]]

\* compute_end_position
compute_end_position_TextEnd(envs) == TextEnd

compute_end_position(envs) ==
    LET docs == {i \in 1..Len(envs) : envs[i].name = "document"}
    IN  IF docs = {} THEN TextEnd
        ELSE envs[CHOOSE i \in docs : \A j \in docs : i <= j].right_start

\* set_label: the label definition that is looked up for a node
FoundLabel_Last(node, ls) ==
    LET inside == {i \in 1..Len(ls) :
                      /\ ls[i].kind = "Definition"
                      /\ Contains(node.full_range, ls[i].start)}
    IN  IF inside = {} THEN 0 ELSE CHOOSE i \in inside : \A j \in inside : j <= i

FoundLabel(node, ls) ==
    LET inside == {i \in 1..Len(ls) :
                      /\ ls[i].kind = "Definition"
                      /\ Contains(node.full_range, ls[i].start)}
    IN  IF inside = {} THEN 0 ELSE CHOOSE i \in inside : \A j \in inside : i <= j

\* LatexSectionNode::set_label
RECURSIVE set_label(_, _)
set_label(node, ls) ==
    LET found == FoundLabel(node, ls)
        ctx   == IF found = 0 THEN NoEntry ELSE OutlineContext_parse(ls[found])
        is_section == ctx.kind = "Section" /\ name(node) = ctx.text
        labelled == IF is_section
                    THEN [node EXCEPT !.label = Some(ls[found].name),
                                      !.number = ctx.number]
                    ELSE node
    IN  [labelled EXCEPT !.children = [i \in 1..Len(@) |-> set_label(@[i], ls)]]

\* LatexSectionNode::insert_symbol and the loop over the children
RECURSIVE node_insert_symbol(_, _)
RECURSIVE try_children(_, _, _)
try_children(children, symbol, i) ==
    IF i > Len(children) THEN [ok |-> FALSE, nodes |-> children]
    ELSE LET r == node_insert_symbol(children[i], symbol)
         IN  IF r.ok THEN [ok |-> TRUE, nodes |-> [children EXCEPT ![i] = r.node]]
             ELSE try_children(children, symbol, i + 1)

node_insert_symbol(node, symbol) ==
    IF ~Contains(node.full_range, symbol.selection_range[1])
    THEN [ok |-> FALSE, node |-> node]
    ELSE LET r == try_children(node.children, symbol, 1)
         IN  IF r.ok THEN [ok |-> TRUE, node |-> [node EXCEPT !.children = r.nodes]]
             ELSE [ok |-> TRUE, node |-> [node EXCEPT !.symbols = Append(@, symbol)]]

\* LatexSectionTree::insert_symbol
tree_insert_symbol(t, symbol) ==
    LET r == try_children(t.children, symbol, 1)
    IN  IF r.ok THEN [t EXCEPT !.children = r.nodes]
        ELSE [t EXCEPT !.symbols = Append(@, symbol)]

\* for symbol in self.symbols { children.push(symbol); } (lines 225-227)
PushAll_Front(children, symbols) == symbols \o children

PushAll(children, symbols) == children \o symbols

\* match number { Some(number) => format!(..), None => .. }
NumberParts_Never(number, with, without) == without

NumberParts(number, with, without) == IF number # None THEN with ELSE without

\* impl Into<LatexSymbol> for LatexSectionNode; a name is the sequence of
\* the strings that format! joins
RECURSIVE into(_)
into(node) ==
    LET children == [i \in 1..Len(node.children) |-> into(node.children[i])]
        full_name == NumberParts(node.number,
                                 <<node.number[1], " ", name(node)>>,
                                 <<name(node)>>)
    IN  [name |-> full_name, label |-> node.label, kind |-> "Section",
         full_range |-> node.full_range,
         selection_range |-> sections[node.section].range,
         children |-> PushAll(children, node.symbols)]

\* a symbol that equation::find_symbols and the like return, starting at p
OtherSymbol(p) ==
    [name |-> <<"Equation">>, label |-> None, kind |-> "Equation",
     full_range |-> <<p, p + 1>>, selection_range |-> <<p, p + 1>>,
     children |-> <<>>]

(***************************************************************************)
(* find_section_symbols and build_section_tree, statement by statement.    *)
(* The parts of the symbol table are drawn where they are first read.      *)
(***************************************************************************)
\* table.environments: none, a document environment that begins at 0 and
\* whose \end command starts at a later free position, or an environment of
\* another name
EnvironmentTables ==
    {<<>>}
    \cup {<<[name |-> n, right_start |-> p]>> :
            n \in {"document", "figure"}, p \in FreePositions \ {0}}

\* table.labels: at most k labels in source order at free positions;
\* the mapping is only asked about definitions
LabelName(p) == <<"label", p>>

LabelKinds ==
    {[kind |-> "Reference", entry |-> NoEntry]}
    \cup {[kind |-> "Definition", entry |-> e] : e \in OutlineEntries}

LabelTables(k) ==
    UNION {{[i \in 1..n |-> [kind |-> kd[i].kind, start |-> st[i],
                            name |-> LabelName(st[i]), entry |-> kd[i].entry]] :
               kd \in [1..n -> LabelKinds],
               st \in {f \in [1..n -> FreePositions] :
                          \A i \in 1..n : \A j \in 1..n : i < j => f[i] < f[j]}} :
           n \in 0..k}

\* find_section_symbols: if let DocumentContent::Latex(table) (line 18)
IsLatex_Always(c) == TRUE

IsLatex(c) == c = "Latex"

\* LatexSectionTree::from: the loop over table.sections (lines 286-294)
from_table ==
    /\ IsLatex(content)
    /\ sphase = "from"
    /\ inserted < Len(sections)
    /\ sectionTree' = [sectionTree EXCEPT
                          !.children = insert_section(@, inserted + 1)]
    /\ inserted' = inserted + 1
    /\ UNCHANGED <<content, sections, environments, labels, sphase, placed, items>>
    /\ UNCHANGED <<parserVars, serverVars, coreVars>>

\* build_section_tree: compute_end_position and set_full_range (lines 58-60)
full_range_step(Envs) ==
    /\ IsLatex(content)
    /\ sphase = "from"
    /\ inserted = Len(sections)
    /\ \E envs \in Envs :
        /\ environments' = envs
        /\ sectionTree' = [sectionTree EXCEPT
              !.children = set_full_range(@, compute_end_position(envs))]
    /\ sphase' = "label"
    /\ UNCHANGED <<content, sections, labels, inserted, placed, items>>
    /\ UNCHANGED <<parserVars, serverVars, coreVars>>

\* build_section_tree: Outline::analyze and set_label (lines 61-65)
label_step(Labels) ==
    /\ sphase = "label"
    /\ \E ls \in Labels :
        /\ labels' = ls
        /\ sectionTree' = [sectionTree EXCEPT
              !.children = [i \in 1..Len(@) |-> set_label(@[i], ls)]]
    /\ sphase' = "symbols"
    /\ UNCHANGED <<content, sections, environments, inserted, placed, items>>
    /\ UNCHANGED <<parserVars, serverVars, coreVars>>

\* find_section_symbols: one call of section_tree.insert_symbol (lines 25-39)
insert_symbol_step ==
    /\ sphase = "symbols"
    /\ Len(placed) < MaxSymbols
    /\ \E p \in FreePositions \ {placed[i] : i \in 1..Len(placed)} :
        /\ sectionTree' = tree_insert_symbol(sectionTree, OtherSymbol(p))
        /\ placed' = Append(placed, p)
    /\ UNCHANGED <<content, sections, environments, labels, sphase, inserted, items>>
    /\ UNCHANGED <<parserVars, serverVars, coreVars>>

\* find_section_symbols: the output loops (lines 41-47)
output_step ==
    /\ sphase = "symbols"
    /\ items' = items \o sectionTree.symbols
                \o [i \in 1..Len(sectionTree.children) |-> into(sectionTree.children[i])]
    /\ sphase' = "done"
    /\ UNCHANGED <<content, sections, environments, labels, sectionTree, inserted, placed>>
    /\ UNCHANGED <<parserVars, serverVars, coreVars>>

ParserIdle ==
    /\ tokens = <<>>
    /\ pos = 1
    /\ tree = <<>>
    /\ edges = <<>>
    /\ stack = <<>>
    /\ pc = "idle"
    /\ root = 0

\* the state when find_section_symbols is entered, for the tables with
\* sections titled from T
SectionStartState(N, T) ==
    /\ content = "Latex"
    /\ sections \in UNION {SectionTables(n, N, T) : n \in 0..N}
    /\ environments = <<>>
    /\ labels = <<>>
    /\ sectionTree = [symbols |-> <<>>, children |-> <<>>]
    /\ sphase = "from"
    /\ inserted = 0
    /\ placed = <<>>
    /\ items = <<>>
    /\ ParserIdle
    /\ ServerIdle
    /\ CoreIdle

\* find_section_symbols on documents without labels
SectionInit == SectionStartState(MaxSections, {"A"})

SectionNext ==
    \/ from_table
    \/ full_range_step(EnvironmentTables)
    \/ label_step({<<>>})
    \/ insert_symbol_step
    \/ output_step

SectionSpec == SectionInit /\ [][SectionNext]_vars

\* build_section_tree on documents with labels, the text ending the content
BuildInit == SectionStartState(MaxLabelledSections, Titles)

BuildNext ==
    \/ from_table
    \/ full_range_step({<<>>})
    \/ label_step(LabelTables(MaxLabels))

BuildSpec == BuildInit /\ [][BuildNext]_vars

(***************************************************************************)
(* Properties of the section tree.                                         *)
(***************************************************************************)
\* every node of a forest, with the section of its parent (0 at the top),
\* its depth and the section of its next sibling (0 for the last)
RECURSIVE Flat(_, _, _)
Flat(nodes, parent, depth) ==
    UNION {{[section |-> nodes[i].section, parent |-> parent, depth |-> depth,
             node |-> nodes[i],
             next |-> IF i < Len(nodes) THEN nodes[i + 1].section ELSE 0]}
           \cup Flat(nodes[i].children, nodes[i].section, depth + 1) :
           i \in 1..Len(nodes)}

FlatTree == Flat(sectionTree.children, 0, 1)

\* the nearest preceding section of a strictly lower level, 0 when none
NearestLower(i) ==
    LET lower == {j \in 1..(i - 1) : sections[j].level < sections[i].level}
    IN  IF lower = {} THEN 0 ELSE CHOOSE j \in lower : \A k \in lower : k <= j

\* C7: every inserted section is in the tree once, as a child of the nearest
\* preceding section of a strictly lower level, and at the top when there
\* is no such section.
C7_SectionHierarchy ==
    /\ {<<f.section, f.parent>> : f \in FlatTree}
           = {<<i, NearestLower(i)>> : i \in 1..inserted}
    /\ Cardinality(FlatTree) = inserted

\* three sections are in the tree, the third below the first and not below
\* the second, which has its level
C7_Witness ==
    /\ inserted = 3
    /\ sections[2].level = sections[3].level
    /\ \E f \in FlatTree : f.section = 3 /\ f.parent = 1

AfterFullRange == sphase \in {"label", "symbols", "done"}

\* C8: once the ranges are set, a node with a next sibling has the range
\* from its own start to the start of that sibling, and the last section of
\* the document ends at the end-of-content position.
C8_FullRange ==
    AfterFullRange =>
        \A f \in FlatTree :
            /\ f.node.full_range[1] = sections[f.section].range[1]
            /\ f.next # 0 =>
                  f.node.full_range[2] = sections[f.next].range[1]
            /\ f.section = Len(sections) =>
                  f.node.full_range[2] = compute_end_position(environments)

\* the ranges are set in a tree of three sections, the first with a next
\* sibling and a child, the document environment ending the content
C8_Witness ==
    /\ AfterFullRange
    /\ Len(sections) = 3
    /\ environments # <<>>
    /\ environments[1].name = "document"
    /\ \E f \in FlatTree : f.section = 1 /\ f.next = 3 /\ f.node.children # <<>>

\* the nodes whose range contains p, and the nodes that hold the symbol
\* that starts at p
Containing(p) == {f \in FlatTree : Contains(f.node.full_range, p)}

Holding(p) ==
    {f \in FlatTree :
        \E k \in 1..Len(f.node.symbols) : f.node.symbols[k].selection_range[1] = p}

AtTop(p) ==
    \E k \in 1..Len(sectionTree.symbols) :
        sectionTree.symbols[k].selection_range[1] = p

\* C9: a symbol is held by the deepest node whose range contains its start,
\* and by the top of the tree exactly when no range contains it.
C9_SymbolAttachment ==
    \A k \in 1..Len(placed) :
        LET p == placed[k]
        IN  IF Containing(p) = {}
            THEN AtTop(p) /\ Holding(p) = {}
            ELSE /\ ~AtTop(p)
                 /\ \E h \in Containing(p) :
                       /\ Holding(p) = {h}
                       /\ \A c \in Containing(p) : c.depth <= h.depth

\* the definitions among the labels that lie within the range of a node
DefinitionsIn(node) ==
    {i \in 1..Len(labels) :
        labels[i].kind = "Definition" /\ Contains(node.full_range, labels[i].start)}

AfterSetLabel == sphase \in {"symbols", "done"}

Unlabelled(node) ==
    /\ node.label = None
    /\ node.number = None
    /\ into(node).name = <<name(node)>>

\* C10 as claimed: a section adopts a label and its number whenever some
\* definition within its range has a section entry whose text is the title
\* of the section, and has no label, no number and the bare title otherwise.
C10_SomeLabel ==
    AfterSetLabel =>
        \A f \in FlatTree :
            LET fit == {i \in DefinitionsIn(f.node) :
                           /\ labels[i].entry.kind = "Section"
                           /\ labels[i].entry.text = name(f.node)}
            IN  IF fit # {}
                THEN \E i \in fit : /\ f.node.label = Some(labels[i].name)
                                    /\ f.node.number = labels[i].entry.number
                ELSE Unlabelled(f.node)

\* C10: a section adopts the label and the number of the first definition
\* within its range when that one has an entry of kind Section whose text
\* is the title of the section, and has no label, no number and the bare
\* title in every other case.
C10_FirstLabel ==
    AfterSetLabel =>
        \A f \in FlatTree :
            LET in == DefinitionsIn(f.node)
                first == IF in = {} THEN 0
                         ELSE CHOOSE i \in in : \A j \in in : i <= j
            IN  IF /\ first # 0
                   /\ labels[first].entry.kind = "Section"
                   /\ labels[first].entry.text = name(f.node)
                THEN /\ f.node.label = Some(labels[first].name)
                     /\ f.node.number = labels[first].entry.number
                     /\ into(f.node).name = <<"2.1", " ", name(f.node)>>
                ELSE Unlabelled(f.node)

\* a section with two definitions in its range has adopted the first, and
\* the second has no fitting entry
C10_Witness ==
    /\ AfterSetLabel
    /\ \E f \in FlatTree :
        /\ Cardinality(DefinitionsIn(f.node)) = 2
        /\ \E i \in DefinitionsIn(f.node) :
              /\ f.node.label = Some(labels[i].name)
              /\ \E j \in DefinitionsIn(f.node) :
                    i < j /\ labels[j].entry.text # name(f.node)

(***************************************************************************)
(* The server: the workspace, the configuration and the requests.  The     *)
(* crate::workspace module is outside the sources at hand; its operations  *)
(* follow the specification's section 4.5 and section 5: the workspace     *)
(* holds the current document set, get() hands out a reference to it, and  *)
(* every write builds a new document set and swaps it in.                  *)
(***************************************************************************)
MaxRequests == 2    \* requests the server handles in one behaviour
MaxVersions == 3    \* document sets the workspace installs, the empty one included

Uris == {"a", "b"}

Texts == {"x", "y"}

\* Options, as far as the server reads them: latex.build.forwardSearchAfter
OptionSet == {[forward_search_after |-> b] : b \in BOOLEAN}

\* Options::default()
DefaultOptions == [forward_search_after |-> FALSE]

\* a document: its text with the tree and the symbol table built from it
Document(t) == [text |-> t, tree |-> <<"tree", t>>, table |-> <<"table", t>>]

\* Workspace::new: no documents
NoDocuments == [u \in Uris |-> None]

\* Workspace::add
add(ds, u, t) == [ds EXCEPT ![u] = Some(Document(t))]

\* Workspace::update: full replace and full reparse of one document
update(ds, u, t) == [ds EXCEPT ![u] = Some(Document(t))]

\* Workspace::reparse: every document is built again from its text
reparse(ds) ==
    [u \in Uris |-> IF ds[u] = None THEN None ELSE Some(Document(ds[u][1].text))]

\* a write that overwrites the document set the readers share
Install_InPlace(s, c, v) == [store |-> [s EXCEPT ![c] = v], current |-> c]

\* a write: the new document set is a new value, swapped in as the current
\* one; the sets handed out before stay as they are
Install(s, c, v) == [store |-> Append(s, v), current |-> Len(s) + 1]

\* Snapshot::find
find(snapshot, u) == snapshot[u]

\* the changes of one didChange notification
ChangeLists == {<<t>> : t \in Texts} \cup {<<t1, t2>> : t1 \in Texts, t2 \in Texts}

\* a did_change that stops after the first change of the list
ApplyChanges_First(s, c, u, changes) ==
    Install(s, c, update(s[c], u, Head(changes)))

RECURSIVE ApplyChanges(_, _, _, _)
\* the loop of did_change: one update per change, in order
ApplyChanges(s, c, u, changes) ==
    IF changes = <<>> THEN [store |-> s, current |-> c]
    ELSE LET w == Install(s, c, update(s[c], u, Head(changes)))
         IN  ApplyChanges(w.store, w.current, u, Tail(changes))

\* the handlers: completion stands for every handler that makes one feature
\* context and runs a provider on it; build is the build command
RequestKinds == {"completion", "build"}

\* a request that has not arrived yet
NoRequest ==
    [kind |-> "none", uri |-> "", pc |-> "idle", opts |-> DefaultOptions,
     snaps |-> <<>>, seen |-> <<>>, answer |-> <<>>]

\* a request whose handler has returned: the context, and with it the
\* snapshots it held, is dropped
Returned(result) == [NoRequest EXCEPT !.pc = result]

\* make_feature_context returns Err(format!("Unknown document: {}", uri)),
\* which the handler hands to the caller
UnknownDocument(u) ==
    [Returned("error") EXCEPT !.answer = <<"Unknown document: ", u>>]

\* BuildEngine::is_busy: some execute call is between the insertion into
\* current_docs and its removal
is_busy == \E q \in DOMAIN reqs : reqs[q].pc = "building"

\* the document sets in use: the current one and those a request holds;
\* a document set nobody holds any more is freed
Drop(s, c, rq) ==
    [k \in DOMAIN s |->
        IF k = c \/ \E r \in DOMAIN rq : \E i \in DOMAIN rq[r].snaps : rq[r].snaps[i] = k
        THEN s[k] ELSE None]

\* ConfigManager::pull followed by the reparse of pull_configuration, when
\* the client answers with the options o
pull_configuration(o) ==
    IF o # options THEN Install(store, current, reparse(store[current]))
    ELSE [store |-> store, current |-> current]

\* the rest of make_feature_context: the snapshot is taken and the
\* document looked up; ok is where the caller goes on with the context
take_snapshot_Unchecked(r, ok) ==
    [reqs EXCEPT ![r].snaps = Append(@, current),
                 ![r].seen = Append(@, store[current]),
                 ![r].pc = ok]

take_snapshot(r, ok) ==
    IF find(store[current], reqs[r].uri) = None
    THEN [reqs EXCEPT ![r] = UnknownDocument(reqs[r].uri)]
    ELSE [reqs EXCEPT ![r].snaps = Append(@, current),
                      ![r].seen = Append(@, store[current]),
                      ![r].pc = ok]

\* the store has room for w document sets more, k being the most it holds
Room(k, w) == Len(store) + w <= k

\* a step of the workspace: w is the store after the writes of the step
Write(w) ==
    /\ current' = w.current
    /\ store' = Drop(w.store, w.current, reqs')
    /\ UNCHANGED <<parserVars, sectionVars, coreVars>>

\* a step of a request that writes nothing
Step(rq) ==
    /\ reqs' = rq
    /\ store' = Drop(store, current, rq)
    /\ UNCHANGED <<current, options, note>>
    /\ UNCHANGED <<parserVars, sectionVars, coreVars>>

\* textDocument/didOpen; n is what the record of the session notes
did_open(u, t, n) ==
    /\ note' = n
    /\ UNCHANGED <<options, reqs>>
    /\ Write(Install(store, current, add(store[current], u, t)))

\* textDocument/didChange for an open document
did_change(u, changes, n) ==
    /\ store[current][u] # None
    /\ note' = n
    /\ UNCHANGED <<options, reqs>>
    /\ Write(ApplyChanges(store, current, u, changes))

\* workspace/didChangeConfiguration with settings that decode to o
did_change_configuration(o, n) ==
    /\ options' = o
    /\ note' = n
    /\ UNCHANGED reqs
    /\ Write(Install(store, current, reparse(store[current])))

\* a did_close that takes the document out of the workspace
did_close_Remove(u, n) ==
    /\ note' = n
    /\ UNCHANGED <<options, reqs>>
    /\ Write(Install(store, current, [store[current] EXCEPT ![u] = None]))

\* textDocument/didClose: the handler has an empty body
did_close(u, n) ==
    /\ note' = n
    /\ UNCHANGED <<store, current, options, reqs>>
    /\ UNCHANGED <<parserVars, sectionVars, coreVars>>

\* a request arrives and its handler runs up to the end of
\* pull_configuration; requests are numbered in the order of arrival
request_pull(r, k, u, o) ==
    /\ reqs[r].pc = "idle"
    /\ \A q \in 1..(r - 1) : reqs[q].pc # "idle"
    /\ o # options => Room(MaxVersions, 1)
    /\ options' = o
    /\ reqs' = [reqs EXCEPT ![r] =
          [kind |-> k, uri |-> u, opts |-> o, snaps |-> <<>>, seen |-> <<>>,
           answer |-> <<>>, pc |-> "get"]]
    /\ UNCHANGED note
    /\ Write(pull_configuration(o))

\* make_feature_context of a feature handler or of build
request_get(r) ==
    /\ reqs[r].pc = "get"
    /\ Step(take_snapshot(r, IF reqs[r].kind = "build" THEN "execute" ELSE "compute"))

\* the feature provider runs on the context and the handler returns
compute(r) ==
    /\ reqs[r].pc = "compute"
    /\ Step([reqs EXCEPT ![r] = Returned("done")])

\* BuildEngine::execute up to the start of the build: a document that is
\* being built already is not built again
execute_begin(r) ==
    /\ reqs[r].pc = "execute"
    /\ Step([reqs EXCEPT ![r].pc =
          IF \E q \in DOMAIN reqs : reqs[q].pc = "building" /\ reqs[q].uri = reqs[r].uri
          THEN "executed" ELSE "building"])

\* BuildEngine::execute from the end of the build process to its return
execute_end(r) ==
    /\ reqs[r].pc = "building"
    /\ Step([reqs EXCEPT ![r].pc = "executed"])

\* build after execute: forward search when the options of the context ask
\* for it and no build is running
build_after(r) ==
    /\ reqs[r].pc = "executed"
    /\ Step([reqs EXCEPT ![r] =
          IF reqs[r].opts.forward_search_after /\ ~is_busy
          THEN [@ EXCEPT !.pc = "fs_pull"] ELSE Returned("done")])

\* forward_search called by build: pull_configuration of its own
\* make_feature_context
forward_search_pull(r, o) ==
    /\ reqs[r].pc = "fs_pull"
    /\ o # options => Room(MaxVersions, 1)
    /\ options' = o
    /\ reqs' = [reqs EXCEPT ![r].pc = "fs_get"]
    /\ UNCHANGED note
    /\ Write(pull_configuration(o))

\* make_feature_context of forward_search
forward_search_get(r) ==
    /\ reqs[r].pc = "fs_get"
    /\ Step(take_snapshot(r, "search"))

\* forward_search::search runs on the snapshot of the context and the
\* handler returns its result
forward_search_search(r) ==
    /\ reqs[r].pc = "search"
    /\ Step([reqs EXCEPT ![r] = Returned("done")])

\* LatexLspServer::new
ServerInit ==
    /\ store = <<NoDocuments>>
    /\ current = 1
    /\ options = DefaultOptions
    /\ reqs = [r \in 1..MaxRequests |-> NoRequest]
    /\ note = <<>>
    /\ ParserIdle
    /\ SectionIdle
    /\ CoreIdle

ServerNext ==
    \/ \E u \in Uris, t \in Texts :
          Room(MaxVersions, 1) /\ did_open(u, t, note)
    \/ \E u \in Uris, c \in ChangeLists :
          Room(MaxVersions, Len(c)) /\ did_change(u, c, note)
    \/ \E u \in Uris : did_close(u, note)
    \/ \E o \in OptionSet :
          Room(MaxVersions, 1) /\ did_change_configuration(o, note)
    \/ \E r \in 1..MaxRequests, k \in RequestKinds, u \in Uris, o \in OptionSet :
          request_pull(r, k, u, o)
    \/ \E r \in 1..MaxRequests : request_get(r)
    \/ \E r \in 1..MaxRequests : compute(r)
    \/ \E r \in 1..MaxRequests : execute_begin(r)
    \/ \E r \in 1..MaxRequests : execute_end(r)
    \/ \E r \in 1..MaxRequests : build_after(r)
    \/ \E r \in 1..MaxRequests, o \in OptionSet : forward_search_pull(r, o)
    \/ \E r \in 1..MaxRequests : forward_search_get(r)
    \/ \E r \in 1..MaxRequests : forward_search_search(r)

ServerSpec == ServerInit /\ [][ServerNext]_vars

(***************************************************************************)
(* A session of notifications, each noted as it is handled.                *)
(***************************************************************************)
MaxSessionVersions == 5   \* document sets a session installs, the empty one included

Notification(kind, u, changes) == [kind |-> kind, uri |-> u, changes |-> changes]

SessionInit == ServerInit

SessionNext ==
    \/ \E u \in Uris, t \in Texts :
          /\ Room(MaxSessionVersions, 1)
          /\ did_open(u, t, Notification("didOpen", u, <<t>>))
    \/ \E u \in Uris, c \in ChangeLists :
          /\ Room(MaxSessionVersions, Len(c))
          /\ did_change(u, c, Notification("didChange", u, c))
    \/ \E u \in Uris : did_close(u, Notification("didClose", u, <<>>))
    \/ \E o \in OptionSet :
          /\ Room(MaxSessionVersions, 1)
          /\ did_change_configuration(o, Notification("didChangeConfiguration", "", <<>>))

SessionSpec == SessionInit /\ [][SessionNext]_vars

(***************************************************************************)
(* Properties of the server.                                               *)
(***************************************************************************)
\* C5: a snapshot a request obtained from workspace.get() is never changed
\* by the writes that follow (add, update, reparse in any interleaving):
\* the document set seen through it, with every document's text, tree and
\* symbol table, equals the document set at the moment of the get.
C5_SnapshotUnchanged ==
    \A r \in DOMAIN reqs : \A i \in 1..Len(reqs[r].snaps) :
        store[reqs[r].snaps[i]] = reqs[r].seen[i]

\* a request holds a snapshot and writes since have changed the documents
C5_Witness ==
    \E r \in DOMAIN reqs :
        /\ reqs[r].snaps # <<>>
        /\ current # reqs[r].snaps[1]
        /\ store[current] # reqs[r].seen[1]
        /\ \E u \in Uris :
              /\ reqs[r].seen[1][u] # None
              /\ store[current][u] # reqs[r].seen[1][u]

\* C6: every request acquires exactly one snapshot: no second call of
\* workspace.get() during the same request, the build command with
\* forward search after build included.
C6_OneSnapshot ==
    \A r \in DOMAIN reqs : Len(reqs[r].snaps) <= 1

C19_CloseKeepsDocuments ==
    /\ [][\A u \in Uris :
            did_close(u, Notification("didClose", u, <<>>)) =>
                store'[current'] = store[current]]_vars
    /\ [][\A u \in Uris :
            store[current][u] # None => store'[current'][u] # None]_vars

\* the last notification closed a document, and the document is still found
C19_Witness ==
    /\ note # <<>>
    /\ note.kind = "didClose"
    /\ store[current][note.uri] # None
    /\ \E v \in Uris : store[current][v] = None

\* C20: after a didChange notification with one or more full-text changes
\* the document of that URI has the text of the last change and the tree
\* and symbol table built from that text; all other documents are unchanged.
C20_ChangeReplaces ==
    [][\A u \in Uris : \A c \in ChangeLists :
          did_change(u, c, Notification("didChange", u, c)) =>
              /\ store'[current'][u] # None
              /\ store'[current'][u][1].text = c[Len(c)]
              /\ store'[current'][u][1].tree = Document(c[Len(c)]).tree
              /\ store'[current'][u][1].table = Document(c[Len(c)]).table
              /\ \A v \in Uris \ {u} : store'[current'][v] = store[current][v]]_vars

\* the last notification changed a document twice, to two different texts,
\* while another document was open
C20_Witness ==
    /\ note # <<>>
    /\ note.kind = "didChange"
    /\ Len(note.changes) = 2
    /\ note.changes[1] # note.changes[2]
    /\ store[current][note.uri][1].text = note.changes[2]
    /\ \E v \in Uris \ {note.uri} : store[current][v] # None

(***************************************************************************)
(* The parser as a function of its input, for the properties that compare  *)
(* trees.  toks is a sequence of tokens [id, kind, start, end]; the nodes  *)
(* name tokens by id.  A state of the descent is [p, tree, edges, out]:    *)
(* the next token, the arena, and the result of the call that returned.    *)
(***************************************************************************)
\* the input of the parser, every token named by its index
Input == [i \in 1..Len(tokens) |->
            [id |-> i, kind |-> tokens[i].kind,
             start |-> tokens[i].start, end |-> tokens[i].end]]

\* the token of toks with the id t
TokenOf(toks, t) == CHOOSE x \in {toks[i] : i \in 1..Len(toks)} : x.id = t

RECURSIVE F_run(_, _, _)
\* the number of tokens that text(scope) takes from position p on
F_run(toks, p, scope) ==
    IF /\ p <= Len(toks)
       /\ \/ toks[p].kind \in {"Word", "BeginOptions"}
          \/ toks[p].kind = "EndOptions" /\ scope # "Options"
    THEN 1 + F_run(toks, p + 1, scope)
    ELSE 0

F_text(toks, st, scope) ==
    LET n == F_run(toks, st.p, scope)
        words == [k \in 1..n |-> toks[st.p + k - 1].id]
        range == <<toks[st.p].start, toks[st.p + n - 1].end>>
    IN  [p |-> st.p + n,
         tree |-> Append(st.tree, [MkNode("Text", range) EXCEPT !.words = words]),
         edges |-> st.edges,
         out |-> Len(st.tree) + 1]

F_leaf(toks, st, type) ==
    LET t == toks[st.p]
    IN  [p |-> st.p + 1,
         tree |-> Append(st.tree, [MkNode(type, <<t.start, t.end>>) EXCEPT !.token = t.id]),
         edges |-> st.edges,
         out |-> Len(st.tree) + 1]

\* add_node followed by connect
F_node(st, node, children) ==
    [p |-> st.p,
     tree |-> Append(st.tree, node),
     edges |-> st.edges \o [i \in 1..Len(children) |-> <<Len(st.tree) + 1, children[i]>>],
     out |-> Len(st.tree) + 1]

RECURSIVE F_content(_, _, _, _)
RECURSIVE F_group(_, _, _)
RECURSIVE F_arguments(_, _, _)
F_command(toks, st) ==
    LET cs == toks[st.p]
        a == F_arguments(toks, [st EXCEPT !.p = @ + 1], <<>>)
        end == IF a.out = <<>> THEN cs.end ELSE a.tree[a.out[Len(a.out)]].range[2]
    IN  F_node(a, [MkNode("Command", <<cs.start, end>>) EXCEPT !.name = cs.id], a.out)

F_arguments(toks, st, children) ==
    IF st.p <= Len(toks) /\ toks[st.p].kind \in {"BeginGroup", "BeginOptions"}
    THEN LET g == F_group(toks, st, IF toks[st.p].kind = "BeginGroup"
                                    THEN "Group" ELSE "Options")
         IN  F_arguments(toks, g, Append(children, g.out))
    ELSE [st EXCEPT !.out = children]

F_group(toks, st, kind) ==
    LET left == toks[st.p]
        c == F_content(toks, [st EXCEPT !.p = @ + 1],
                       IF kind = "Group" THEN "Group" ELSE "Options", <<>>)
        closed == /\ c.p <= Len(toks)
                  /\ toks[c.p].kind = IF kind = "Group" THEN "EndGroup" ELSE "EndOptions"
        end == IF closed THEN toks[c.p].end
               ELSE IF c.out # <<>> THEN c.tree[c.out[Len(c.out)]].range[2]
               ELSE left.end
    IN  F_node([c EXCEPT !.p = IF closed THEN @ + 1 ELSE @],
               [MkNode("Group", <<left.start, end>>) EXCEPT
                   !.left = left.id, !.kind = kind,
                   !.right = IF closed THEN toks[c.p].id ELSE NoToken],
               c.out)

F_content(toks, st, scope, children) ==
    IF st.p > Len(toks) THEN [st EXCEPT !.out = children]
    ELSE LET kind == toks[st.p].kind
             push(r) == F_content(toks, r, scope, Append(children, r.out))
         IN  CASE kind \in {"Word", "BeginOptions"} -> push(F_text(toks, st, scope))
               [] kind = "Command" -> push(F_command(toks, st))
               [] kind = "Comma" -> push(F_leaf(toks, st, "Comma"))
               [] kind = "Math" -> push(F_leaf(toks, st, "Math"))
               [] kind = "BeginGroup" -> push(F_group(toks, st, "Group"))
               [] kind = "EndGroup" ->
                    IF scope = "Root"
                    THEN F_content(toks, [st EXCEPT !.p = @ + 1], scope, children)
                    ELSE [st EXCEPT !.out = children]
               [] kind = "EndOptions" ->
                    IF scope = "Options"
                    THEN [st EXCEPT !.out = children]
                    ELSE push(F_text(toks, st, scope))

\* Parser::new(toks).parse(): the arena, its edges and the root
F_parse(toks) ==
    LET c == F_content(toks, [p |-> 1, tree |-> <<>>, edges |-> <<>>, out |-> <<>>],
                       "Root", <<>>)
        range == IF c.out = <<>> THEN EmptyRange
                 ELSE <<c.tree[c.out[1]].range[1], c.tree[c.out[Len(c.out)]].range[2]>>
        r == F_node(c, MkNode("Root", range), c.out)
    IN  [tree |-> r.tree, edges |-> r.edges, root |-> r.out]

\* the tree that the parser has returned
Parsed == [tree |-> tree, edges |-> edges, root |-> root]

\* the children of node n of the tree t, in the order of their edges
ChildSeq(t, n) ==
    LET from(e) == e[1] = n
        es == SelectSeq(t.edges, from)
    IN  [i \in 1..Len(es) |-> es[i][2]]

RECURSIVE Shape(_, _)
\* node n of the tree t with its descendants, without arena indices; the
\* range of the Root is left out
Shape(t, n) ==
    LET cs == ChildSeq(t, n)
    IN  [node |-> IF t.tree[n].type = "Root"
                  THEN [t.tree[n] EXCEPT !.range = EmptyRange] ELSE t.tree[n],
         children |-> [i \in 1..Len(cs) |-> Shape(t, cs[i])]]

RECURSIVE MergeText(_)
\* a sequence of shapes with every run of Text nodes made one Text node
MergeText(shapes) ==
    IF Len(shapes) < 2 THEN shapes
    ELSE LET a == shapes[1]
             b == shapes[2]
         IN  IF a.node.type = "Text" /\ b.node.type = "Text"
             THEN MergeText(<<[a EXCEPT !.node.words = @ \o b.node.words,
                                        !.node.range = <<@[1], b.node.range[2]>>]>>
                            \o SubSeq(shapes, 3, Len(shapes)))
             ELSE <<a>> \o MergeText(Tail(shapes))

\* the tokens that some node of the arena holds
Held ==
    UNION {{tree[n].left, tree[n].right, tree[n].name, tree[n].token}
           \cup {tree[n].words[k] : k \in 1..Len(tree[n].words)} : n \in Nodes}
    \ {NoToken}

\* the closing braces that closed no group: those met in Root scope
StrayClosers ==
    {i \in 1..Len(tokens) :
        /\ tokens[i].kind = "EndGroup"
        /\ ~\E n \in Nodes : tree[n].type = "Group" /\ tree[n].right = i}

\* content() in Root scope is at a closing brace
AtStrayCloser == Running("content") /\ PeekKind = "EndGroup" /\ Top.scope = "Root"

\* the input without its stray closers
WithoutStray ==
    LET keep(t) == t.id \notin StrayClosers
    IN  SelectSeq(Input, keep)

\* the nodes that parse makes on top level from the tokens piece alone
TopLevel(piece) == Shape(F_parse(piece), F_parse(piece).root).children

RECURSIVE PieceChildren(_, _)
\* the input cut at its stray closers, every piece parsed on its own: the
\* top-level nodes of the pieces, in the order of the pieces
PieceChildren(toks, piece) ==
    IF toks = <<>> THEN TopLevel(piece)
    ELSE IF Head(toks).id \in StrayClosers
         THEN TopLevel(piece) \o PieceChildren(Tail(toks), <<>>)
         ELSE PieceChildren(Tail(toks), Append(piece, Head(toks)))

\* C12 as claimed: a closing brace met in Root scope is consumed without a
\* node, and the tree is that of the input without the stray closers, but
\* for the boundaries of text runs.
C12_AsIfAbsent ==
    pc = "done" =>
        LET with == Shape(Parsed, root)
            without == Shape(F_parse(WithoutStray), F_parse(WithoutStray).root)
        IN  /\ StrayClosers \cap Held = {}
            /\ [with EXCEPT !.children = MergeText(@)]
                   = [without EXCEPT !.children = MergeText(@)]

\* C12: a closing brace met in Root scope is consumed and makes no node,
\* and content() goes on in Root scope with the next token; the closer
\* ends what precedes it as the end of the input would, so that the
\* children of the Root are those of the pieces between the stray
\* closers, every piece parsed on its own.
C12_StrayCloser ==
    /\ [][AtStrayCloser =>
            /\ pos' = pos + 1
            /\ UNCHANGED <<tree, edges, stack, pc, root>>]_vars
    /\ [](pc = "done" =>
            /\ StrayClosers \cap Held = {}
            /\ Shape(Parsed, root).children = PieceChildren(Input, <<>>))

\* parse has returned on an input with a stray closer between a command
\* and an opening brace
C12_Witness ==
    /\ pc = "done"
    /\ \E i \in StrayClosers :
          /\ i > 1 /\ i < Len(tokens)
          /\ tokens[i - 1].kind = "Command"
          /\ tokens[i + 1].kind = "BeginGroup"

\* the next token is a closing bracket and the scope is Root or Group
AtStrayBracket(fn) ==
    Running(fn) /\ PeekKind = "EndOptions" /\ Top.scope \in {"Root", "Group"}

\* the Text nodes that hold the token i as a word
TextsOf(i) ==
    {n \in Nodes : tree[n].type = "Text"
                   /\ \E k \in 1..Len(tree[n].words) : tree[n].words[k] = i}

\* C13: a closing bracket met in Root or Group scope closes no group:
\* content() calls text() in the same scope, text() takes the bracket as
\* the next word and stores the words in its Text node; brackets end up
\* as words in token order and only an Options group has one as its right
\* delimiter.
C13_StrayBracket ==
    /\ [][AtStrayBracket("content") =>
            /\ stack' = Append(stack, Frame("text", Top.scope, "None", NoToken))
            /\ UNCHANGED <<pos, tree, edges>>]_vars
    /\ [][AtStrayBracket("text") =>
            /\ stack' = [stack EXCEPT ![Len(stack)].words = Append(@, pos)]
            /\ pos' = pos + 1
            /\ UNCHANGED <<tree, edges>>]_vars
    /\ [][Running("text") /\ tree' # tree =>
            /\ tree' = Append(tree, tree'[Len(tree')])
            /\ tree'[Len(tree')].type = "Text"
            /\ tree'[Len(tree')].words = Top.words]_vars
    /\ [](\A n \in Nodes :
            /\ tree[n].type = "Group" /\ tree[n].right # NoToken
                  => tokens[tree[n].right].kind = RightKind(tree[n].kind)
            /\ tree[n].type = "Text"
                  => \A j, k \in 1..Len(tree[n].words) :
                        j < k => tree[n].words[j] < tree[n].words[k])
    /\ [](pc = "done" =>
            \A i \in 1..Len(tokens) :
                tokens[i].kind = "EndOptions" =>
                    \/ Cardinality(TextsOf(i)) = 1
                          /\ ~\E n \in Nodes : tree[n].type = "Group" /\ tree[n].right = i
                    \/ TextsOf(i) = {}
                          /\ \E n \in Nodes : /\ tree[n].type = "Group"
                                              /\ tree[n].kind = "Options"
                                              /\ tree[n].right = i)

\* parse has returned a braced group with a closing bracket among the
\* words of a Text node in it, after another word
C13_Witness ==
    /\ pc = "done"
    /\ \E g, n \in Nodes :
          /\ tree[g].type = "Group" /\ tree[g].kind = "Group"
          /\ <<g, n>> \in EdgeSet
          /\ tree[n].type = "Text" /\ Len(tree[n].words) = 2
          /\ tokens[tree[n].words[2]].kind = "EndOptions"

\* the Group nodes of the given kind whose left delimiter is the token i
GroupsAt(i, kind) ==
    {n \in Nodes : tree[n].type = "Group" /\ tree[n].kind = kind /\ tree[n].left = i}

\* the token i is the name of a command or closes an argument of a command
EndsCommandPart(i) ==
    \/ tokens[i].kind = "Command"
    \/ \E c, g \in Nodes : /\ tree[c].type = "Command"
                           /\ <<c, g>> \in EdgeSet
                           /\ tree[g].right = i

\* content(scope) run on the input from the token after i on
ContentAfter(i, scope) ==
    F_content(Input, [p |-> i + 1, tree |-> <<>>, edges |-> <<>>, out |-> <<>>],
              scope, <<>>)

\* the group n holds what content() in its scope yields after its left
\* delimiter, and the closer of its kind that follows, if one does
HoldsNestedContent(n) ==
    LET c == ContentAfter(tree[n].left,
                          IF tree[n].kind = "Group" THEN "Group" ELSE "Options")
        closer == IF tree[n].kind = "Group" THEN "EndGroup" ELSE "EndOptions"
        mine == ChildSeq(Parsed, n)
    IN  /\ Len(mine) = Len(c.out)
        /\ \A k \in 1..Len(mine) : Shape(Parsed, mine[k]) = Shape(c, c.out[k])
        /\ tree[n].right = IF c.p <= Len(tokens) /\ tokens[c.p].kind = closer
                           THEN c.p ELSE NoToken

\* C14 as claimed: every opening brace and every opening bracket is the
\* left delimiter of a Group node of its kind.
C14_EveryOpenerStartsGroup ==
    pc = "done" =>
        \A i \in 1..Len(tokens) :
            /\ tokens[i].kind = "BeginGroup" => GroupsAt(i, "Group") # {}
            /\ tokens[i].kind = "BeginOptions" => GroupsAt(i, "Options") # {}

\* C14: every opening brace is the left delimiter of one Group node of
\* kind Group.  An opening bracket is the left delimiter of one Group node
\* of kind Options exactly when it comes right after a command name or
\* right after the closing delimiter of an argument of a command; every
\* other opening bracket is a word of one Text node.  The children of a
\* group are the content parsed in its scope from its left delimiter up
\* to the closing delimiter of its kind, if any.
C14_Openers ==
    pc = "done" =>
        /\ \A i \in 1..Len(tokens) :
              /\ tokens[i].kind = "BeginGroup" =>
                    Cardinality(GroupsAt(i, "Group")) = 1
              /\ tokens[i].kind = "BeginOptions" =>
                    IF i > 1 /\ EndsCommandPart(i - 1)
                    THEN Cardinality(GroupsAt(i, "Options")) = 1 /\ TextsOf(i) = {}
                    ELSE GroupsAt(i, "Options") = {} /\ Cardinality(TextsOf(i)) = 1
        /\ \A n \in Nodes : tree[n].type = "Group" => HoldsNestedContent(n)

\* parse has returned on an input with an opening bracket that is a word
\* and one that opens a closed Options group of a command
C14_Witness ==
    /\ pc = "done"
    /\ \E i, j \in 1..Len(tokens) :
          /\ tokens[i].kind = "BeginOptions" /\ TextsOf(i) # {}
          /\ \E n \in GroupsAt(j, "Options") : tree[n].right # NoToken

\* the closing delimiter that a group of the given kind takes
CloserOf(kind) == IF kind = "Group" THEN "EndGroup" ELSE "EndOptions"

\* C15: group() takes the token after its content as the right delimiter
\* when it is the closer of the group's kind, and records no right
\* delimiter otherwise; the range of a group starts at its left delimiter
\* and ends at the end of the right delimiter if there is one, else at the
\* end of the last child, else at the end of the left delimiter.
C15_GroupEnd ==
    /\ [][Running("group") /\ Top.ret =>
            LET closed == PeekKind = CloserOf(Top.kind)
                g == tree'[Len(tree')]
            IN  /\ tree' = Append(tree, g)
                /\ g.type = "Group" /\ g.kind = Top.kind /\ g.left = Top.tok
                /\ g.right = IF closed THEN pos ELSE NoToken
                /\ pos' = IF closed THEN pos + 1 ELSE pos
                /\ edges' = edges \o [k \in 1..Len(Top.children) |->
                                        <<Len(tree) + 1, Top.children[k]>>]]_vars
    /\ [](\A n \in Nodes :
            tree[n].type = "Group" =>
                LET cs == ChildSeq(Parsed, n)
                IN  /\ tree[n].range[1] = tokens[tree[n].left].start
                    /\ tree[n].range[2] =
                          IF tree[n].right # NoToken THEN tokens[tree[n].right].end
                          ELSE IF cs # <<>> THEN tree[cs[Len(cs)]].range[2]
                          ELSE tokens[tree[n].left].end)

\* parse has returned a group without right delimiter that has two
\* children, and a group without right delimiter and without children
C15_Witness ==
    /\ pc = "done"
    /\ \E n, e \in Nodes :
          /\ tree[n].type = "Group" /\ tree[n].right = NoToken
          /\ Len(ChildSeq(Parsed, n)) >= 2
          /\ tree[e].type = "Group" /\ tree[e].right = NoToken
          /\ ChildSeq(Parsed, e) = <<>>

RECURSIVE LastTok(_)
\* the last token that the node n holds, its descendants included
LastTok(n) ==
    LET cs == ChildSeq(Parsed, n)
        own == CASE tree[n].type = "Text" -> tree[n].words[Len(tree[n].words)]
                 [] tree[n].type \in {"Comma", "Math"} -> tree[n].token
                 [] tree[n].type = "Command" -> tree[n].name
                 [] tree[n].type = "Group" -> tree[n].left
                 [] OTHER -> NoToken
    IN  IF tree[n].type = "Group" /\ tree[n].right # NoToken THEN tree[n].right
        ELSE IF cs # <<>> THEN LastTok(cs[Len(cs)])
        ELSE own

\* the token i opens an argument group
IsOpener(i) == i <= Len(tokens) /\ tokens[i].kind \in {"BeginGroup", "BeginOptions"}

\* C16: the children of a Command node are groups, the first opened by the
\* token right after the name and every next one by the token right after
\* the last token of the one before, each of the kind of its opener; the
\* token after the last of them (after the name when there is none) opens
\* no group.  The range runs from the start of the name to the end of the
\* last child, or is the range of the name when there is no child.
C16_CommandArguments ==
    \A c \in Nodes :
        tree[c].type = "Command" =>
            LET cs == ChildSeq(Parsed, c)
                last == IF cs = <<>> THEN tree[c].name ELSE LastTok(cs[Len(cs)])
            IN  /\ \A k \in 1..Len(cs) :
                      /\ tree[cs[k]].type = "Group"
                      /\ tree[cs[k]].left =
                            (IF k = 1 THEN tree[c].name ELSE LastTok(cs[k - 1])) + 1
                      /\ tree[cs[k]].kind =
                            IF tokens[tree[cs[k]].left].kind = "BeginGroup"
                            THEN "Group" ELSE "Options"
                      /\ IsOpener(tree[cs[k]].left)
                /\ ~IsOpener(last + 1)
                /\ tree[c].range[1] = tokens[tree[c].name].start
                /\ tree[c].range[2] = IF cs = <<>> THEN tokens[tree[c].name].end
                                      ELSE tree[cs[Len(cs)]].range[2]

\* parse has returned a command with two argument groups, a braced one
\* and a bracketed one after it
C16_Witness ==
    /\ pc = "done"
    /\ \E c \in Nodes :
          /\ tree[c].type = "Command"
          /\ Len(ChildSeq(Parsed, c)) = 2
          /\ tree[ChildSeq(Parsed, c)[1]].kind = "Group"
          /\ tree[ChildSeq(Parsed, c)[2]].kind = "Options"

\* the token i is the left or the right delimiter of a group
IsDelimiter(i) ==
    \E n \in Nodes : tree[n].type = "Group" /\ (tree[n].left = i \/ tree[n].right = i)

\* C17: the words of a Text node are one or more Word and bracket tokens
\* that follow one another in the input, in source order, and its range
\* runs from the start of the first to the end of the last; the run is
\* maximal: no Text node holds the token before it or the token after it,
\* and the token after it is no Word and no opening bracket.  When parse
\* returns, every Word token, and every bracket that delimits no group,
\* is a word of exactly one Text node.
C17_TextRuns ==
    /\ \A n \in Nodes :
          tree[n].type = "Text" =>
              LET ws == tree[n].words
                  first == ws[1]
                  last == ws[Len(ws)]
              IN  /\ ws # <<>>
                  /\ \A k \in 1..Len(ws) :
                        /\ ws[k] = first + k - 1
                        /\ tokens[ws[k]].kind \in {"Word", "BeginOptions", "EndOptions"}
                  /\ tree[n].range = <<tokens[first].start, tokens[last].end>>
                  /\ first > 1 => TextsOf(first - 1) = {}
                  /\ last < Len(tokens) =>
                        /\ TextsOf(last + 1) = {}
                        /\ tokens[last + 1].kind \notin {"Word", "BeginOptions"}
    /\ pc = "done" =>
          \A i \in 1..Len(tokens) :
              /\ tokens[i].kind = "Word" => Cardinality(TextsOf(i)) = 1
              /\ tokens[i].kind \in {"BeginOptions", "EndOptions"} =>
                    IF IsDelimiter(i) THEN TextsOf(i) = {}
                    ELSE Cardinality(TextsOf(i)) = 1

\* parse has returned a Text node of a word, an opening bracket and
\* another word, with a token of another kind after it
C17_Witness ==
    /\ pc = "done"
    /\ \E n \in Nodes :
          /\ tree[n].type = "Text" /\ Len(tree[n].words) = 3
          /\ tokens[tree[n].words[1]].kind = "Word"
          /\ tokens[tree[n].words[2]].kind = "BeginOptions"
          /\ tokens[tree[n].words[3]].kind = "Word"
          /\ tree[n].words[3] < Len(tokens)

\* C18: the tree that parse returns is a function of the token sequence:
\* node kinds, tokens, ranges, child order and arena indices are those
\* that F_parse computes from the input, so two runs on the same tokens
\* return the same tree.
C18_Deterministic ==
    pc = "done" => Parsed = F_parse(Input)

\* parse has returned a tree with a command whose braced argument has a
\* child, next to another top-level node
C18_Witness ==
    /\ pc = "done"
    /\ Len(ChildSeq(Parsed, root)) >= 2
    /\ \E c, g, x \in Nodes :
          /\ tree[c].type = "Command"
          /\ <<c, g>> \in EdgeSet
          /\ <<g, x>> \in EdgeSet

(***************************************************************************)
(* Workspace::related_documents, called by FeatureRequest::new             *)
(* (feature.rs:20).  crate::workspace is not among the sources: the        *)
(* traversal follows the description of the workspace, a depth-first walk  *)
(* over the inclusion edges, taken in both directions, with a visited set. *)
(***************************************************************************)
MaxDocuments == 3   \* the URIs that documents and inclusions may name

MaxIncludes == 1    \* the inclusions of one document

UriList == <<"a", "b", "c", "d", "e">>

DocUris == {UriList[i] : i \in 1..MaxDocuments}

\* the members of the set us as a sequence, in the order of UriList
InOrder(us) ==
    LET member(u) == u \in us
    IN  SelectSeq(SubSeq(UriList, 1, MaxDocuments), member)

IncludeSets == {us \in SUBSET DocUris : Cardinality(us) <= MaxIncludes}

\* the workspaces with the documents of the URIs us, one document per URI
WorkspacesOf(us) ==
    {[i \in 1..Len(InOrder(us)) |->
         [uri |-> InOrder(us)[i], text |-> "x", includes |-> inc[InOrder(us)[i]]]] :
       inc \in [us -> IncludeSets]}

Workspaces == UNION {WorkspacesOf(us) : us \in SUBSET DocUris}

\* the URIs of the documents of the workspace docs
UrisOf(docs) == {docs[i].uri : i \in 1..Len(docs)}

\* the inclusion edges between documents of the workspace, both directions
InclusionEdges(docs) ==
    LET forward == {e \in UrisOf(docs) \X UrisOf(docs) :
                       \E i \in 1..Len(docs) :
                           docs[i].uri = e[1] /\ e[2] \in docs[i].includes}
    IN  forward \cup {<<e[2], e[1]>> : e \in forward}

\* the documents that share an inclusion edge with u, in workspace order
Neighbours(docs, u) ==
    InOrder({e[2] : e \in {d \in InclusionEdges(docs) : d[1] = u}})

\* the visited guard
Seen_Never(u, seen) == FALSE

Seen(u, seen) == u \in seen

\* related_documents(uri): the start document is looked up
related_documents_call ==
    /\ rpc = "call"
    /\ IF ruri \in UrisOf(documents)
       THEN rstack' = <<ruri>> /\ rpc' = "loop"
       ELSE rstack' = <<>> /\ rpc' = "done"
    /\ UNCHANGED <<snapshots, documents, ruri, visited, results>>
    /\ UNCHANGED <<parserVars, sectionVars, serverVars, taskVars>>

\* the document on top of the stack was visited before: it is dropped
related_documents_skip ==
    /\ rpc = "loop"
    /\ rstack # <<>>
    /\ Seen(rstack[Len(rstack)], visited)
    /\ rstack' = SubSeq(rstack, 1, Len(rstack) - 1)
    /\ UNCHANGED <<snapshots, documents, ruri, visited, results, rpc>>
    /\ UNCHANGED <<parserVars, sectionVars, serverVars, taskVars>>

\* the document on top of the stack is new: it is marked, returned, and
\* the documents at its inclusion edges are pushed
related_documents_visit ==
    /\ rpc = "loop"
    /\ rstack # <<>>
    /\ ~Seen(rstack[Len(rstack)], visited)
    /\ LET u == rstack[Len(rstack)]
       IN  /\ visited' = visited \cup {u}
           /\ results' = Append(results, u)
           /\ rstack' = SubSeq(rstack, 1, Len(rstack) - 1) \o Neighbours(documents, u)
    /\ UNCHANGED <<snapshots, documents, ruri, rpc>>
    /\ UNCHANGED <<parserVars, sectionVars, serverVars, taskVars>>

\* the stack is empty: related_documents returns the results
related_documents_return ==
    /\ rpc = "loop"
    /\ rstack = <<>>
    /\ rpc' = "done"
    /\ UNCHANGED <<snapshots, documents, ruri, rstack, visited, results>>
    /\ UNCHANGED <<parserVars, sectionVars, serverVars, taskVars>>

\* FeatureRequest::new for the first URI and some workspace, which may or
\* may not hold a document of that URI
RelatedInit ==
    /\ documents \in Workspaces
    /\ ruri = UriList[1]
    /\ rstack = <<>>
    /\ visited = {}
    /\ results = <<>>
    /\ rpc = "call"
    /\ snapshots = {}
    /\ ParserIdle
    /\ SectionIdle
    /\ ServerIdle
    /\ TaskIdle

RelatedNext ==
    \/ related_documents_call
    \/ related_documents_skip
    \/ related_documents_visit
    \/ related_documents_return

RelatedSpec == RelatedInit /\ [][RelatedNext]_vars

\* the call runs on its own thread of control and is never suspended
RelatedFairSpec == RelatedSpec /\ WF_vars(RelatedNext)

RECURSIVE Closure(_, _)
\* the documents that the edges connect with a document of the set us
Closure(docs, us) ==
    LET more == us \cup {e[2] : e \in {d \in InclusionEdges(docs) : d[1] \in us}}
    IN  IF more = us THEN us ELSE Closure(docs, more)

\* C21: related_documents returns for every workspace, with or without
\* cycles of inclusion; no document is in the result twice, no step fails,
\* and the result is what the inclusion edges connect with the document.
C21_RelatedTerminates ==
    /\ <>(rpc = "done")
    /\ [](rpc \in {"call", "loop", "done"})
    /\ [](\A i, j \in 1..Len(results) : results[i] = results[j] => i = j)
    /\ [](rpc = "done" =>
            {results[i] : i \in 1..Len(results)} =
                IF ruri \in UrisOf(documents) THEN Closure(documents, {ruri}) ELSE {})

\* related_documents has returned both of two documents that include
\* each other
C21_Witness ==
    /\ rpc = "done"
    /\ \E i, j \in 1..Len(documents) :
          /\ i # j
          /\ documents[i].includes = {documents[j].uri}
          /\ documents[j].includes = {documents[i].uri}
          /\ {documents[i].uri, documents[j].uri} \subseteq {results[k] : k \in 1..Len(results)}

(***************************************************************************)
(* The Workspace as the vector of documents that Snapshot wraps            *)
(* (server.rs:566 iterates snapshot.0).  add, update, reparse and get are  *)
(* in crate::workspace, which is not among the sources: they follow the    *)
(* description of the workspace, a set of documents unique by URI that     *)
(* every write replaces by a new vector.                                   *)
(***************************************************************************)
MaxSnapshots == 2   \* the Snapshots that are kept to be looked at

\* Document::open: a document of the URI u built from the text t under
\* the options o
Opened(u, t, o) == [uri |-> u, text |-> t, opts |-> o]

\* the documents of docs of another URI than u
Others(docs, u) ==
    LET other(d) == d.uri # u
    IN  SelectSeq(docs, other)

\* Workspace::add: the new document takes the place of one of its URI
Workspace_add_Push(docs, u, t, o) == Append(docs, Opened(u, t, o))

Workspace_add(docs, u, t, o) == Append(Others(docs, u), Opened(u, t, o))

\* Workspace::update: full replace of the document of the URI, if any
Workspace_update(docs, u, t, o) ==
    IF u \in UrisOf(docs) THEN Append(Others(docs, u), Opened(u, t, o)) ELSE docs

\* Workspace::reparse: every document is built again under the options o
Workspace_reparse(docs, o) ==
    [i \in 1..Len(docs) |-> Opened(docs[i].uri, docs[i].text, o)]

\* did_open (server.rs:170-182): self.workspace.add(params.text_document, &options)
workspace_add(u, t) ==
    /\ documents' = Workspace_add(documents, u, t, options)
    /\ UNCHANGED <<snapshots, options>>
    /\ UNCHANGED <<ruri, rstack, visited, results, rpc>>
    /\ UNCHANGED <<store, current, reqs, note>>
    /\ UNCHANGED <<parserVars, sectionVars, taskVars>>

\* did_change (server.rs:184-200): self.workspace.update(..) per change
workspace_update(u, changes) ==
    /\ documents' = IF Len(changes) = 1
                    THEN Workspace_update(documents, u, changes[1], options)
                    ELSE Workspace_update(Workspace_update(documents, u, changes[1], options),
                                          u, changes[2], options)
    /\ UNCHANGED <<snapshots, options>>
    /\ UNCHANGED <<ruri, rstack, visited, results, rpc>>
    /\ UNCHANGED <<store, current, reqs, note>>
    /\ UNCHANGED <<parserVars, sectionVars, taskVars>>

\* did_change_configuration (server.rs:220-226) and pull_configuration
\* (server.rs:552-560): self.workspace.reparse(&options)
workspace_reparse(o) ==
    /\ options' = o
    /\ documents' = Workspace_reparse(documents, o)
    /\ UNCHANGED snapshots
    /\ UNCHANGED <<ruri, rstack, visited, results, rpc>>
    /\ UNCHANGED <<store, current, reqs, note>>
    /\ UNCHANGED <<parserVars, sectionVars, taskVars>>

\* make_feature_context (server.rs:529): self.workspace.get()
workspace_get ==
    /\ Cardinality(snapshots \cup {documents}) <= MaxSnapshots
    /\ snapshots' = snapshots \cup {documents}
    /\ UNCHANGED <<documents, options>>
    /\ UNCHANGED <<ruri, rstack, visited, results, rpc>>
    /\ UNCHANGED <<store, current, reqs, note>>
    /\ UNCHANGED <<parserVars, sectionVars, taskVars>>

\* LatexLspServer::new: an empty workspace
WorkspaceInit ==
    /\ ParserIdle
    /\ SectionIdle
    /\ ServerIdle
    /\ CoreIdle

WorkspaceNext ==
    \/ \E u \in Uris, t \in Texts : workspace_add(u, t)
    \/ \E u \in Uris, c \in ChangeLists : workspace_update(u, c)
    \/ \E o \in OptionSet : workspace_reparse(o)
    \/ workspace_get

WorkspaceSpec == WorkspaceInit /\ [][WorkspaceNext]_vars

\* the vector docs holds at most one document per URI
UniqueByUri(docs) ==
    \A i, j \in 1..Len(docs) : docs[i].uri = docs[j].uri => i = j

\* C22: after any sequence of add, update and reparse, the workspace and
\* every snapshot taken from it hold at most one document per URI.
C22_UniqueByUri ==
    /\ UniqueByUri(documents)
    /\ \A snapshot \in snapshots : UniqueByUri(snapshot)

\* a URI was opened a second time with another text after a snapshot
\* with its first document was taken, and another document is open
C22_Witness ==
    \E snapshot \in snapshots, i, j \in 1..Len(documents) :
        /\ Len(snapshot) = 1
        /\ documents[j].uri = snapshot[1].uri
        /\ documents[j].text # snapshot[1].text
        /\ documents[i].uri # documents[j].uri

(***************************************************************************)
(* Tasks on the BuildEngine, the ConfigManager and the ActionManager.      *)
(* Every lock().await is a step of its own, enabled when the Mutex is      *)
(* free; the guard is released where the code drops it.  Every await on    *)
(* the client or on the build process is a step of its own.                *)
(***************************************************************************)
MaxTasks == 2   \* the tasks that run side by side

TaskIds == 1..MaxTasks

Mutexes == {"handles_by_token", "current_docs", "options", "actions"}

\* the argument of cancel that stands for every build
AllBuilds == <<"texlab-build-", 0>>

\* the ProgressToken of the execute call of task t
TokenOf_Task(t) == <<"texlab-build-", t>>

NoTask ==
    [op |-> "none", pc |-> "idle", uri |-> "", file |-> FALSE, arg |-> <<>>,
     changed |-> FALSE, status |-> "None"]

\* Document::is_file of the document that execute builds (build.rs:66)
IsFile_Always(task) == TRUE

IsFile(task) == task.file

\* the guard of a Mutex is dropped
Unlock_Never(ls, m) == ls

Unlock(ls, m) == [ls EXCEPT ![m] = 0]

At(t, op, where) == tasks[t].op = op /\ tasks[t].pc = where

Goto(t, where) == [tasks EXCEPT ![t].pc = where]

\* the operation of task t returns; of its record the operation, the flag
\* of its document and the result stay to be looked at
Return(t, status) ==
    [tasks EXCEPT ![t] = [NoTask EXCEPT !.op = tasks[t].op, !.file = tasks[t].file,
                                        !.pc = "done", !.status = status]]

\* lock().await of the Mutex m: the task goes on when the Mutex is free
Acquire(t, op, where, m, next) ==
    /\ At(t, op, where)
    /\ locks[m] = 0
    /\ locks' = [locks EXCEPT ![m] = t]
    /\ tasks' = Goto(t, next)

NotServer ==
    UNCHANGED <<workspaceVars, parserVars, sectionVars, store, current, reqs, note>>

NotWorkspace == NotServer /\ UNCHANGED <<pushed, taken>>

\* a task starts an operation
task_start(t, op, u, file, arg) ==
    /\ tasks[t].pc = "idle"
    /\ tasks' = [tasks EXCEPT ![t] =
          [NoTask EXCEPT !.op = op, !.pc = "start", !.uri = u, !.file = file, !.arg = arg]]
    /\ UNCHANGED <<locks, handles_by_token, current_docs, aborted, progress, processes,
                   actions, capabilities, options>>
    /\ NotWorkspace

\* is_busy (build.rs:38-40)
is_busy_lock(t) ==
    /\ Acquire(t, "is_busy", "start", "current_docs", "locked")
    /\ UNCHANGED <<handles_by_token, current_docs, aborted, progress, processes,
                   actions, capabilities, options>>
    /\ NotWorkspace

is_busy_read(t) ==
    /\ At(t, "is_busy", "locked")
    /\ tasks' = Return(t, IF current_docs # {} THEN "busy" ELSE "free")
    /\ locks' = Unlock(locks, "current_docs")
    /\ UNCHANGED <<handles_by_token, current_docs, aborted, progress, processes,
                   actions, capabilities, options>>
    /\ NotWorkspace

\* cancel (build.rs:42-51)
cancel_lock(t) ==
    /\ Acquire(t, "cancel", "start", "handles_by_token", "locked")
    /\ UNCHANGED <<handles_by_token, current_docs, aborted, progress, processes,
                   actions, capabilities, options>>
    /\ NotWorkspace

\* the handles that cancel aborts, lines 44-50
BuildEngine_cancel_All(handles, token) == handles

BuildEngine_cancel(handles, token) ==
    IF token \in handles THEN {token}
    ELSE IF token = AllBuilds THEN handles
    ELSE {}

cancel_abort(t) ==
    /\ At(t, "cancel", "locked")
    /\ aborted' = aborted \cup BuildEngine_cancel(handles_by_token, tasks[t].arg)
    /\ tasks' = Return(t, "None")
    /\ locks' = Unlock(locks, "handles_by_token")
    /\ UNCHANGED <<handles_by_token, current_docs, progress, processes,
                   actions, capabilities, options>>
    /\ NotWorkspace

\* execute (build.rs:53-142): the handle is registered, lines 56-59
execute_lock_handles(t) ==
    /\ Acquire(t, "execute", "start", "handles_by_token", "register")
    /\ UNCHANGED <<handles_by_token, current_docs, aborted, progress, processes,
                   actions, capabilities, options>>
    /\ NotWorkspace

execute_register(t) ==
    /\ At(t, "execute", "register")
    /\ handles_by_token' = handles_by_token \cup {TokenOf_Task(t)}
    /\ locks' = Unlock(locks, "handles_by_token")
    /\ tasks' = Goto(t, "is_file")
    /\ UNCHANGED <<current_docs, aborted, progress, processes, actions, capabilities,
                   options>>
    /\ NotWorkspace

\* execute: the document to build is not a file, lines 61-71
execute_is_file(t) ==
    /\ At(t, "execute", "is_file")
    /\ tasks' = IF IsFile(tasks[t]) THEN Goto(t, "lock_docs") ELSE Return(t, "Failure")
    /\ UNCHANGED <<locks, handles_by_token, current_docs, aborted, progress, processes,
                   actions, capabilities, options>>
    /\ NotWorkspace

\* execute: the document is entered in current_docs, lines 73-81
execute_lock_docs(t) ==
    /\ Acquire(t, "execute", "lock_docs", "current_docs", "enter")
    /\ UNCHANGED <<handles_by_token, current_docs, aborted, progress, processes,
                   actions, capabilities, options>>
    /\ NotWorkspace

\* current_docs.get(&doc.uri).is_some(), line 75
IsBuilding_Never(docs, u) == FALSE

IsBuilding(docs, u) == u \in docs

execute_enter(t) ==
    /\ At(t, "execute", "enter")
    /\ IF IsBuilding(current_docs, tasks[t].uri)
       THEN /\ tasks' = Return(t, "Success")
            /\ UNCHANGED current_docs
       ELSE /\ tasks' = Goto(t, "begin")
            /\ current_docs' = current_docs \cup {tasks[t].uri}
    /\ locks' = Unlock(locks, "current_docs")
    /\ UNCHANGED <<handles_by_token, aborted, progress, processes, actions, capabilities,
                   options>>
    /\ NotWorkspace

\* execute: work_done_progress_create and the Begin notification, lines
\* 85-104, of a client that answers the request and of a path with a file
\* name; to_file_path may fail, lines 118-121
execute_begin_progress(t, path_ok) ==
    /\ At(t, "execute", "begin")
    /\ IF path_ok
       THEN /\ progress' = IF capabilities.progress
                           THEN progress \o <<<<TokenOf_Task(t), "Create">>,
                                              <<TokenOf_Task(t), "Begin">>>>
                           ELSE progress
            /\ tasks' = Goto(t, "build")
       ELSE /\ tasks' = [Goto(t, "end") EXCEPT ![t].status = "Failure"]
            /\ UNCHANGED progress
    /\ UNCHANGED <<locks, handles_by_token, current_docs, aborted, processes, actions,
                   capabilities, options>>
    /\ NotWorkspace

\* execute: the first poll of the Abortable, line 106: an aborted handle
\* ends it before the build, otherwise the process is spawned (lines
\* 156-163), which may fail
execute_spawn(t, spawned) ==
    /\ At(t, "execute", "build")
    /\ IF TokenOf_Task(t) \in aborted
       THEN /\ tasks' = [Goto(t, "end") EXCEPT ![t].status = "Cancelled"]
            /\ UNCHANGED processes
       ELSE IF spawned
       THEN /\ tasks' = Goto(t, "running")
            /\ processes' = processes \cup {TokenOf_Task(t)}
       ELSE /\ tasks' = [Goto(t, "end") EXCEPT ![t].status = "Failure"]
            /\ UNCHANGED processes
    /\ UNCHANGED <<locks, handles_by_token, current_docs, aborted, progress, actions,
                   capabilities, options>>
    /\ NotWorkspace

\* execute: the build process runs under the AbortHandle and ends, or the
\* handle is aborted and the process is killed on drop, lines 106-116
execute_build(t, status) ==
    /\ At(t, "execute", "running")
    /\ status \in (IF TokenOf_Task(t) \in aborted THEN {"Cancelled"}
                   ELSE {"Success", "Error", "Failure"})
    /\ UNCHANGED processes
    /\ tasks' = [Goto(t, "end") EXCEPT ![t].status = status]
    /\ UNCHANGED <<locks, handles_by_token, current_docs, aborted, progress, actions,
                   capabilities, options>>
    /\ NotWorkspace

\* execute: the End notification, lines 124-132
execute_end_progress(t) ==
    /\ At(t, "execute", "end")
    /\ progress' = IF capabilities.progress
                   THEN Append(progress, <<TokenOf_Task(t), "End">>)
                   ELSE progress
    /\ tasks' = Goto(t, "lock_remove")
    /\ UNCHANGED <<locks, handles_by_token, current_docs, aborted, processes, actions,
                   capabilities, options>>
    /\ NotWorkspace

\* execute: the handle is removed, lines 133-136
execute_lock_remove(t) ==
    /\ Acquire(t, "execute", "lock_remove", "handles_by_token", "remove")
    /\ UNCHANGED <<handles_by_token, current_docs, aborted, progress, processes,
                   actions, capabilities, options>>
    /\ NotWorkspace

execute_remove(t) ==
    /\ At(t, "execute", "remove")
    /\ handles_by_token' = handles_by_token \ {TokenOf_Task(t)}
    /\ locks' = Unlock(locks, "handles_by_token")
    /\ tasks' = Goto(t, "lock_leave")
    /\ UNCHANGED <<current_docs, aborted, progress, processes, actions, capabilities,
                   options>>
    /\ NotWorkspace

\* execute: the document leaves current_docs, lines 138-141
execute_lock_leave(t) ==
    /\ Acquire(t, "execute", "lock_leave", "current_docs", "leave")
    /\ UNCHANGED <<handles_by_token, current_docs, aborted, progress, processes,
                   actions, capabilities, options>>
    /\ NotWorkspace

\* current_docs.remove(&doc.uri), line 139
current_docs_remove_Keep(docs, u) == docs

current_docs_remove(docs, u) == docs \ {u}

execute_leave(t) ==
    /\ At(t, "execute", "leave")
    /\ current_docs' = current_docs_remove(current_docs, tasks[t].uri)
    /\ locks' = Unlock(locks, "current_docs")
    /\ tasks' = Return(t, tasks[t].status)
    /\ UNCHANGED <<handles_by_token, aborted, progress, processes, actions, capabilities,
                   options>>
    /\ NotWorkspace

\* ConfigManager::push (config.rs:54-63); a value that does not parse, the
\* argument <<>>, is logged and dropped
\* serde_json::from_value(options), line 55: a JSON value is written by
\* what it decodes to, <<o>> for the Options o and <<>> for no Options
from_value_Default(json) ==
    [ok |-> TRUE, value |-> IF json # <<>> THEN json[1] ELSE DefaultOptions]

from_value(json) ==
    IF json # <<>> THEN [ok |-> TRUE, value |-> json[1]]
    ELSE [ok |-> FALSE, value |-> DefaultOptions]

push_parse(t) ==
    /\ At(t, "push", "start")
    /\ tasks' = IF from_value(tasks[t].arg).ok
                THEN Goto(t, "lock") ELSE Return(t, "Invalid configuration")
    /\ UNCHANGED <<locks, handles_by_token, current_docs, aborted, progress, processes,
                   actions, capabilities, options>>
    /\ NotWorkspace

push_lock(t) ==
    /\ Acquire(t, "push", "lock", "options", "locked")
    /\ UNCHANGED <<handles_by_token, current_docs, aborted, progress, processes,
                   actions, capabilities, options>>
    /\ NotWorkspace

push_store(t) ==
    /\ At(t, "push", "locked")
    /\ options' = from_value(tasks[t].arg).value
    /\ locks' = Unlock(locks, "options")
    /\ tasks' = Return(t, "None")
    /\ UNCHANGED <<handles_by_token, current_docs, aborted, progress, processes,
                   actions, capabilities>>
    /\ NotWorkspace

\* the comparison of ConfigManager::pull (config.rs:75)
HasChanged_Always(old, new) == TRUE

HasChanged(old, new) == old # new

\* pull_configuration (server.rs:552-560) calls ConfigManager::pull
\* (config.rs:65-81): with pull support the two sections are asked of the
\* client, which answers with the options o; without it pull returns false
pull_sections(t, o) ==
    /\ At(t, "pull_configuration", "start")
    /\ tasks' = IF capabilities.pull
                THEN [Goto(t, "lock_pull") EXCEPT ![t].arg = o]
                ELSE [Goto(t, "lock_get") EXCEPT ![t].changed = FALSE]
    /\ UNCHANGED <<locks, handles_by_token, current_docs, aborted, progress, processes,
                   actions, capabilities, options>>
    /\ NotWorkspace

pull_lock(t) ==
    /\ Acquire(t, "pull_configuration", "lock_pull", "options", "compare")
    /\ UNCHANGED <<handles_by_token, current_docs, aborted, progress, processes,
                   actions, capabilities, options>>
    /\ NotWorkspace

\* config.rs:75-77: has_changed, and the new options are stored
pull_compare(t) ==
    /\ At(t, "pull_configuration", "compare")
    /\ options' = tasks[t].arg
    /\ locks' = Unlock(locks, "options")
    /\ tasks' = [Goto(t, "lock_get") EXCEPT
                    ![t].changed = HasChanged(options, tasks[t].arg)]
    /\ UNCHANGED <<handles_by_token, current_docs, aborted, progress, processes,
                   actions, capabilities>>
    /\ NotWorkspace

\* server.rs:555: config_manager.get(), which is ConfigManager::get
\* (config.rs:28-30)
pull_get_lock(t) ==
    /\ Acquire(t, "pull_configuration", "lock_get", "options", "get")
    /\ UNCHANGED <<handles_by_token, current_docs, aborted, progress, processes,
                   actions, capabilities, options>>
    /\ NotWorkspace

pull_get(t) ==
    /\ At(t, "pull_configuration", "get")
    /\ locks' = Unlock(locks, "options")
    /\ tasks' = [Goto(t, "reparse") EXCEPT ![t].arg = options]
    /\ UNCHANGED <<handles_by_token, current_docs, aborted, progress, processes,
                   actions, capabilities, options>>
    /\ NotWorkspace

\* server.rs:556-559: the workspace is parsed again if has_changed
pull_reparse(t) ==
    /\ At(t, "pull_configuration", "reparse")
    /\ IF tasks[t].changed
       THEN /\ documents' = Workspace_reparse(documents, tasks[t].arg)
            /\ tasks' = Return(t, "reparsed")
       ELSE /\ UNCHANGED documents
            /\ tasks' = Return(t, "kept")
    /\ UNCHANGED <<locks, handles_by_token, current_docs, aborted, progress, processes,
                   actions, capabilities, options>>
    /\ UNCHANGED <<ruri, rstack, visited, results, rpc, snapshots>>
    /\ UNCHANGED <<parserVars, sectionVars, store, current, reqs, note, pushed, taken>>

\* ActionManager::push (server.rs:731-734)
action_push_lock(t) ==
    /\ Acquire(t, "action_push", "start", "actions", "locked")
    /\ UNCHANGED <<handles_by_token, current_docs, aborted, progress, processes,
                   actions, capabilities, options>>
    /\ NotWorkspace

\* actions.push(action)
ActionManager_push_Front(queue, action) == <<action>> \o queue

ActionManager_push(queue, action) == Append(queue, action)

action_push_step(t) ==
    /\ At(t, "action_push", "locked")
    /\ actions' = ActionManager_push(actions, tasks[t].arg)
    /\ locks' = Unlock(locks, "actions")
    /\ tasks' = Return(t, "None")
    /\ UNCHANGED <<handles_by_token, current_docs, aborted, progress, processes,
                   capabilities, options>>
    /\ NotServer

action_push(t) == action_push_step(t) /\ UNCHANGED <<pushed, taken>>

\* ActionManager::take (server.rs:736-739)
action_take_lock(t) ==
    /\ Acquire(t, "action_take", "start", "actions", "locked")
    /\ UNCHANGED <<handles_by_token, current_docs, aborted, progress, processes,
                   actions, capabilities, options>>
    /\ NotWorkspace

\* mem::replace(&mut *actions, Vec::new()): what is returned and what stays
ActionManager_take_Keep(queue) == [returned |-> queue, left |-> queue]

ActionManager_take(queue) == [returned |-> queue, left |-> <<>>]

action_take_step(t) ==
    /\ At(t, "action_take", "locked")
    /\ actions' = ActionManager_take(actions).left
    /\ locks' = Unlock(locks, "actions")
    /\ tasks' = Return(t, "None")
    /\ UNCHANGED <<handles_by_token, current_docs, aborted, progress, processes,
                   capabilities, options>>
    /\ NotServer

action_take(t) == action_take_step(t) /\ UNCHANGED <<pushed, taken>>

\* the server after initialize, with the capabilities of some client and
\* one open document
TaskInit ==
    /\ tasks = [t \in TaskIds |-> NoTask]
    /\ locks = [m \in Mutexes |-> 0]
    /\ handles_by_token = {}
    /\ current_docs = {}
    /\ aborted = {}
    /\ progress = <<>>
    /\ processes = {}
    /\ actions = <<>>
    /\ capabilities \in [pull : BOOLEAN, progress : BOOLEAN]
    /\ pushed = <<>>
    /\ taken = <<>>
    /\ documents = <<Opened("a", "x", DefaultOptions)>>
    /\ ruri = ""
    /\ rstack = <<>>
    /\ visited = {}
    /\ results = <<>>
    /\ rpc = "idle"
    /\ snapshots = {}
    /\ ParserIdle
    /\ SectionIdle
    /\ ServerIdle

\* the operations a task may start, with their arguments
Calls ==
    {<<"is_busy", "", FALSE, <<>>>>,
     <<"pull_configuration", "", FALSE, <<>>>>,
     <<"action_push", "", FALSE, "PublishDiagnostics">>,
     <<"action_take", "", FALSE, <<>>>>}
    \cup {<<"cancel", "", FALSE, k>> : k \in {AllBuilds, TokenOf_Task(1)}}
    \cup {<<"execute", "a", TRUE, <<>>>>, <<"execute", "b", FALSE, <<>>>>}
    \cup {<<"push", "", FALSE, a>> : a \in {<<o>> : o \in OptionSet} \cup {<<>>}}

TaskNext ==
    \E t \in TaskIds :
        \/ \E c \in Calls : task_start(t, c[1], c[2], c[3], c[4])
        \/ is_busy_lock(t) \/ is_busy_read(t)
        \/ cancel_lock(t) \/ cancel_abort(t)
        \/ execute_lock_handles(t) \/ execute_register(t) \/ execute_is_file(t)
        \/ execute_lock_docs(t) \/ execute_enter(t)
        \/ \E ok \in BOOLEAN : execute_begin_progress(t, ok)
        \/ \E ok \in BOOLEAN : execute_spawn(t, ok)
        \/ \E st \in {"Success", "Error", "Failure", "Cancelled"} : execute_build(t, st)
        \/ execute_end_progress(t)
        \/ execute_lock_remove(t) \/ execute_remove(t)
        \/ execute_lock_leave(t) \/ execute_leave(t)
        \/ push_parse(t) \/ push_lock(t) \/ push_store(t)
        \/ \E o \in OptionSet : pull_sections(t, o)
        \/ pull_lock(t) \/ pull_compare(t) \/ pull_get_lock(t) \/ pull_get(t)
        \/ pull_reparse(t)
        \/ action_push_lock(t) \/ action_push(t)
        \/ action_take_lock(t) \/ action_take(t)

TaskSpec == TaskInit /\ [][TaskNext]_vars

\* the Mutexes whose guard the task t holds
GuardsOf(t) == {m \in Mutexes : locks[m] = t}

\* the Mutex whose lock().await is the next step of task t, "none" if its
\* next step is no lock
WaitsFor(t) ==
    LET op == tasks[t].op
        where == tasks[t].pc
    IN  CASE op = "is_busy" /\ where = "start" -> "current_docs"
          [] op = "cancel" /\ where = "start" -> "handles_by_token"
          [] op = "execute" /\ where \in {"start", "lock_remove"} -> "handles_by_token"
          [] op = "execute" /\ where \in {"lock_docs", "lock_leave"} -> "current_docs"
          [] op = "push" /\ where = "lock" -> "options"
          [] op = "pull_configuration" /\ where \in {"lock_pull", "lock_get"} -> "options"
          [] op \in {"action_push", "action_take"} /\ where = "start" -> "actions"
          [] OTHER -> "none"

\* the next step of task t is an await on the client or on the build
\* process, which may take any time
Blocking(t) ==
    \/ tasks[t].op = "execute" /\ tasks[t].pc \in {"begin", "build", "running", "end"}
    \/ tasks[t].op = "pull_configuration" /\ tasks[t].pc = "start" /\ capabilities.pull

\* every task of the set ts waits for a Mutex that a task of ts holds
Deadlocked(ts) ==
    \A t \in ts : WaitsFor(t) # "none" /\ locks[WaitsFor(t)] \in ts

\* C23: a task that is about to lock a Mutex holds no other, a task that
\* awaits the client or the build process holds none, a task that has
\* returned holds none, and no set of tasks is deadlocked.
C23_NoDeadlock ==
    /\ \A t \in TaskIds :
          /\ WaitsFor(t) # "none" => GuardsOf(t) = {}
          /\ Blocking(t) => GuardsOf(t) = {}
          /\ tasks[t].pc \in {"idle", "done"} => GuardsOf(t) = {}
    /\ \A ts \in SUBSET TaskIds : ts # {} => ~Deadlocked(ts)

\* execute is about to remove its handle and waits for handles_by_token,
\* which a cancel holds
C23_Witness ==
    \E t, u \in TaskIds :
        /\ tasks[t].op = "execute" /\ tasks[t].pc = "lock_remove"
        /\ tasks[u].op = "cancel"
        /\ locks["handles_by_token"] = u

\* the positions of execute from the entry in current_docs to its removal
Building ==
    {"begin", "build", "running", "end", "lock_remove", "remove", "lock_leave", "leave"}

\* C24: execute on a document that is no file returns Failure at the
\* test of is_file, and that step starts no process, sends no progress
\* notification and leaves current_docs alone; only documents that are
\* files are in current_docs, have a build process or a progress
\* notification.
C24_OnlyFilesAreBuilt ==
    /\ [][\A t \in TaskIds :
            At(t, "execute", "is_file") /\ ~tasks[t].file /\ tasks'[t] # tasks[t] =>
                /\ tasks'[t].pc = "done"
                /\ tasks'[t].status = "Failure"
                /\ UNCHANGED <<current_docs, progress, processes>>]_vars
    /\ [](\A t \in TaskIds :
            tasks[t].op = "execute" /\ ~tasks[t].file =>
                /\ tasks[t].pc \in {"start", "register", "is_file", "done"}
                /\ tasks[t].pc = "done" => tasks[t].status = "Failure"
                /\ TokenOf_Task(t) \notin processes
                /\ \A i \in DOMAIN progress : progress[i][1] # TokenOf_Task(t))
    /\ [](\A u \in current_docs :
            \E t \in TaskIds : /\ tasks[t].op = "execute" /\ tasks[t].file
                               /\ tasks[t].uri = u /\ tasks[t].pc \in Building)

\* execute has returned Failure for a document that is no file while the
\* build of a file is running with its Begin notification sent
C24_Witness ==
    \E t, u \in TaskIds :
        /\ tasks[t].op = "execute" /\ ~tasks[t].file
        /\ tasks[t].pc = "done" /\ tasks[t].status = "Failure"
        /\ tasks[u].op = "execute" /\ tasks[u].file /\ tasks[u].pc = "build"
        /\ \E i \in DOMAIN progress : progress[i] = <<TokenOf_Task(u), "Begin">>

\* task t takes a step
Steps(t) == tasks'[t] # tasks[t]

\* C30: pull stores the options the client answered with and returns
\* whether they differ from the options stored until then;
\* pull_configuration parses the workspace again exactly when pull
\* returned true; for a client without pull support pull asks nothing,
\* stores nothing and returns false, so nothing is parsed again.
C30_PullReparse ==
    /\ [][\A t \in TaskIds :
            At(t, "pull_configuration", "compare") /\ Steps(t) =>
                /\ tasks'[t].changed = (options # tasks[t].arg)
                /\ options' = tasks[t].arg]_vars
    /\ [][\A t \in TaskIds :
            At(t, "pull_configuration", "reparse") /\ Steps(t) =>
                IF tasks[t].changed
                THEN /\ tasks'[t].status = "reparsed"
                     /\ documents' = [i \in 1..Len(documents) |->
                                         [documents[i] EXCEPT !.opts = tasks[t].arg]]
                ELSE /\ tasks'[t].status = "kept"
                     /\ documents' = documents]_vars
    /\ [][\A t \in TaskIds :
            tasks[t].op = "pull_configuration" /\ Steps(t) /\ ~capabilities.pull =>
                /\ tasks'[t].status # "reparsed"
                /\ ~tasks'[t].changed
                /\ tasks'[t].pc \notin {"lock_pull", "compare"}
                /\ UNCHANGED <<options, documents>>]_vars

\* with pull support one pull_configuration has parsed the workspace
\* again and another has left it alone
C30_Witness ==
    /\ capabilities.pull
    /\ \E t, u \in TaskIds :
          /\ tasks[t].op = "pull_configuration" /\ tasks[t].status = "reparsed"
          /\ tasks[u].op = "pull_configuration" /\ tasks[u].status = "kept"

(***************************************************************************)
(* find_section_symbols as a whole (section/mod.rs:17-49): the test of the *)
(* document content, the four finders in their order, and the output.      *)
(* enumeration.rs, theorem.rs, util.rs and the outline module are outside  *)
(* the sources at hand: the enumerations and theorems are symbols of their *)
(* kind, and a label comes with what OutlineContext::find_number answers.  *)
(***************************************************************************)
MaxOutlineSections == 2   \* longest table.sections when all finders run
MaxOutlineSymbols == 2    \* most symbols that the four finders return together

\* the positions at which a symbol other than a section is selected: two
\* of them before the first section, one behind every section command
SymbolPositions == {-1, 0} \cup {3 * i - 1 : i \in 1..Len(sections)}

\* the label of an equation or of a float environment: None, or a label
\* with the number that the label to number mapping has for it
SymbolLabels ==
    {None, Some([name |-> "l", number |-> None]),
     Some([name |-> "l", number |-> Some("1")])}

\* the symbols that the finders may still return
StillFree == MaxOutlineSymbols - Len(placed)

\* what a finder reads in the table: an equation, a caption, or the
\* environment of an enumeration or theorem, selected at start; a caption
\* has the name of the environment whose direct child it is and the text
\* that it prints
Found(finder, Ps, L, Envs, Printed) ==
    {[finder |-> finder, start |-> p, label |-> l, env |-> e, text |-> t] :
        p \in Ps, l \in L, e \in Envs, t \in Printed}

Plains(finder) == Found(finder, SymbolPositions, {None}, {None}, {None})

\* the sequences of at most n members of S that start at different positions
ListsOf(S, n) ==
    UNION {{f \in [1..k -> S] :
              \A i \in 1..k : \A j \in 1..k : i # j => f[i].start # f[j].start} :
           k \in 0..n}

\* a symbol of enumeration::find_symbols or theorem::find_symbols
PlainSymbol(in) ==
    [name |-> <<in.finder>>, label |-> None, kind |-> in.finder,
     full_range |-> <<in.start, in.start + 1>>,
     selection_range |-> <<in.start, in.start + 1>>,
     children |-> <<>>]

\* label.and_then(|label| OutlineContext::find_number(view, table, *label))
find_number(label) == IF label = None THEN None ELSE label[1].number

\* util::label_name
label_name(label) == IF label = None THEN None ELSE Some(label[1].name)

\* equation::make_symbol
equation_make_symbol(eq) ==
    LET number == find_number(eq.label)
    IN  [name |-> NumberParts(number, <<"Equation (", number[1], ")">>,
                              <<"Equation">>),
         label |-> label_name(eq.label), kind |-> "Equation",
         full_range |-> <<eq.start, eq.start + 1>>,
         selection_range |-> <<eq.start, eq.start + 1>>,
         children |-> <<>>]

\* OutlineCaptionKind::parse and as_str
OutlineCaptionKind_parse(env_name) ==
    IF env_name = "figure" THEN Some("Figure")
    ELSE IF env_name = "table" THEN Some("Table")
    ELSE None

\* float::make_symbol: None when the caption is the direct child of no
\* environment, prints no text or stands in an environment that is no float
float_make_symbol(caption) ==
    IF caption.env = None THEN None
    ELSE IF caption.text = None THEN None
    ELSE LET kind == OutlineCaptionKind_parse(caption.env[1])
             number == find_number(caption.label)
         IN  IF kind = None THEN None
             ELSE Some(
                [name |-> NumberParts(number,
                             <<kind[1], " ", number[1], ": ", caption.text[1]>>,
                             <<kind[1], ": ", caption.text[1]>>),
                 label |-> label_name(caption.label), kind |-> kind[1],
                 full_range |-> <<caption.start, caption.start + 1>>,
                 selection_range |-> <<caption.start, caption.start + 1>>,
                 children |-> <<>>])

\* what a finder makes of one thing it reads: Some symbol, or None
make_symbol(in) ==
    IF in.finder = "Equation" THEN Some(equation_make_symbol(in))
    ELSE IF in.finder = "Float" THEN float_make_symbol(in)
    ELSE Some(PlainSymbol(in))

\* find_symbols of a finder: the symbols made, in the order of the table
\* (float::find_symbols is a filter_map)
RECURSIVE find_symbols(_)
find_symbols(ins) ==
    IF ins = <<>> THEN <<>>
    ELSE make_symbol(Head(ins)) \o find_symbols(Tail(ins))

\* for symbol in ... { section_tree.insert_symbol(&symbol); }
RECURSIVE insert_all(_, _)
insert_all(t, found) ==
    IF found = <<>> THEN t
    ELSE insert_all(tree_insert_symbol(t, Head(found)), Tail(found))

\* one of the four loops of find_section_symbols, over what a finder reads
finder_loop(next, ins) ==
    /\ Len(placed) + Len(ins) <= MaxOutlineSymbols
    /\ \A i \in 1..Len(ins) : \A k \in 1..Len(placed) :
          ins[i].start # placed[k].from.start
    /\ sectionTree' = insert_all(sectionTree, find_symbols(ins))
    /\ placed' = placed \o [i \in 1..Len(ins) |->
                              [from |-> ins[i], made |-> make_symbol(ins[i])]]
    /\ sphase' = next
    /\ UNCHANGED <<content, sections, environments, labels, inserted, items>>
    /\ UNCHANGED <<parserVars, serverVars, coreVars>>

\* find_section_symbols: a document that is not LaTeX (line 18)
not_latex ==
    /\ ~IsLatex(content)
    /\ sphase = "from"
    /\ sphase' = "done"
    /\ UNCHANGED <<content, sections, environments, labels, sectionTree, inserted,
                   placed, items>>
    /\ UNCHANGED <<parserVars, serverVars, coreVars>>

\* lines 25-27
enumeration_loop(Tables) ==
    /\ sphase = "symbols"
    /\ \E ins \in Tables : finder_loop("equations", ins)

\* lines 29-31
equation_loop(Tables) ==
    /\ sphase = "equations"
    /\ \E ins \in Tables : finder_loop("floats", ins)

\* lines 33-35
float_loop(Tables) ==
    /\ sphase = "floats"
    /\ \E ins \in Tables : finder_loop("theorems", ins)

\* lines 37-39
theorem_loop(Tables) ==
    /\ sphase = "theorems"
    /\ \E ins \in Tables : finder_loop("output", ins)

\* lines 41-47
output_loops ==
    /\ sphase = "output"
    /\ items' = items \o sectionTree.symbols
                \o [i \in 1..Len(sectionTree.children) |->
                       into(sectionTree.children[i])]
    /\ sphase' = "done"
    /\ UNCHANGED <<content, sections, environments, labels, sectionTree, inserted,
                   placed>>
    /\ UNCHANGED <<parserVars, serverVars, coreVars>>

\* a symbol that is in ctx.items before find_section_symbols is called
PriorItem ==
    [name |-> <<"entry">>, label |-> None, kind |-> "Entry",
     full_range |-> <<-1, 0>>, selection_range |-> <<-1, 0>>, children |-> <<>>]

\* find_section_symbols is entered with a document of either content; a
\* BibTeX document has no LaTeX symbol table
SymbolInit ==
    /\ content \in {"Latex", "Bibtex"}
    /\ sections \in IF content = "Latex"
                    THEN UNION {SectionTables(n, MaxOutlineSections, {"A"}) :
                                   n \in 0..MaxOutlineSections}
                    ELSE {<<>>}
    /\ environments = <<>>
    /\ labels = <<>>
    /\ sectionTree = [symbols |-> <<>>, children |-> <<>>]
    /\ sphase = "from"
    /\ inserted = 0
    /\ placed = <<>>
    /\ items \in {<<>>, <<PriorItem>>}
    /\ ParserIdle
    /\ ServerIdle
    /\ CoreIdle

SymbolNext ==
    \/ not_latex
    \/ from_table
    \/ full_range_step({<<>>})
    \/ label_step({<<>>})
    \/ enumeration_loop(ListsOf(Plains("Enumeration"), StillFree))
    \/ equation_loop(ListsOf(Plains("Equation"), StillFree))
    \/ float_loop(ListsOf(Found("Float", SymbolPositions, {None},
                                {Some("figure")}, {Some("C")}),
                          StillFree))
    \/ theorem_loop(ListsOf(Plains("Theorem"), StillFree))
    \/ output_loops

SymbolSpec == SymbolInit /\ [][SymbolNext]_vars

(***************************************************************************)
(* Properties of find_section_symbols as a whole.                          *)
(***************************************************************************)
\* the document is empty: its table has no section and no finder finds
\* anything
EmptyLatex == content = "Latex" /\ sections = <<>> /\ placed = <<>>

\* C25: on an empty LaTeX document and on every BibTeX document
\* find_section_symbols runs to its end, and no step of it changes
\* ctx.items: a context that came with no items leaves with none.
C25_EmptyDocument ==
    /\ [](((content = "Bibtex" \/ EmptyLatex) /\ sphase # "done")
             => ENABLED SymbolNext)
    /\ [][(content = "Bibtex" \/ (EmptyLatex /\ placed' = <<>>))
             => items' = items]_vars

\* find_section_symbols has returned on an empty LaTeX document whose
\* context came without items, and the items are still empty
C25_Witness ==
    /\ sphase = "done"
    /\ EmptyLatex
    /\ items = <<>>

(***************************************************************************)
(* The names of the symbols: sections with the labels of the table, and    *)
(* equations and floats with their own labels.                             *)
(***************************************************************************)
MaxNamedSections == 1   \* longest table.sections when names are looked at

\* the entries of the label to number mapping: none, a section entry with
\* or without a number, and a section entry of another title
NamedEntries ==
    {NoEntry,
     [kind |-> "Section", text |-> "A", number |-> Some("2.1")],
     [kind |-> "Section", text |-> "A", number |-> None],
     [kind |-> "Section", text |-> "B", number |-> Some("2.1")]}

NamedKinds ==
    {[kind |-> "Reference", entry |-> NoEntry]}
    \cup {[kind |-> "Definition", entry |-> e] : e \in NamedEntries}

\* table.labels: one label behind every section command
NamedLabelTables ==
    {[i \in 1..Len(sections) |->
        [kind |-> kd[i].kind, start |-> 3 * i - 1,
         name |-> LabelName(3 * i - 1), entry |-> kd[i].entry]] :
     kd \in [1..Len(sections) -> NamedKinds]}

\* table.equations: at most one equation, before the sections
NamedEquations ==
    ListsOf(Found("Equation", {0}, SymbolLabels, {None}, {None}),
            StillFree)

\* table.captions: at most one caption, before the sections
NamedCaptions ==
    ListsOf(Found("Float", {-1}, SymbolLabels,
                  {None, Some("figure"), Some("center")}, {None, Some("C")}),
            StillFree)

NameInit ==
    /\ content = "Latex"
    /\ sections \in UNION {SectionTables(n, MaxNamedSections, {"A"}) :
                              n \in 0..MaxNamedSections}
    /\ environments = <<>>
    /\ labels = <<>>
    /\ sectionTree = [symbols |-> <<>>, children |-> <<>>]
    /\ sphase = "from"
    /\ inserted = 0
    /\ placed = <<>>
    /\ items = <<>>
    /\ ParserIdle
    /\ ServerIdle
    /\ CoreIdle

NameNext ==
    \/ from_table
    \/ full_range_step({<<>>})
    \/ label_step(NamedLabelTables)
    \/ enumeration_loop({<<>>})
    \/ equation_loop(NamedEquations)
    \/ float_loop(NamedCaptions)
    \/ theorem_loop({<<>>})
    \/ output_loops

NameSpec == NameInit /\ [][NameNext]_vars

\* every symbol of a list of symbols, the children behind their parent
RECURSIVE AllSymbols(_)
AllSymbols(syms) ==
    IF syms = <<>> THEN <<>>
    ELSE <<Head(syms)>> \o AllSymbols(Head(syms).children) \o AllSymbols(Tail(syms))

\* the names of the symbols of a kind in ctx.items that are selected at p
NamesAt(kinds, p) ==
    LET all == AllSymbols(items)
    IN  {all[i].name : i \in {j \in 1..Len(all) :
                                 /\ all[j].kind \in kinds
                                 /\ all[j].selection_range[1] = p}}

\* the number that the label mapping has for a section: that of the first
\* definition in its range if its entry is a section entry of its title
NumberOf(node) ==
    LET in == DefinitionsIn(node)
        first == IF in = {} THEN 0 ELSE CHOOSE i \in in : \A j \in in : i <= j
    IN  IF /\ first # 0
           /\ labels[first].entry.kind = "Section"
           /\ labels[first].entry.text = name(node)
        THEN labels[first].entry.number
        ELSE None

\* C26: when find_section_symbols has returned, every section, every
\* equation and every caption of a float is in the output with one symbol:
\* named with the number when the mapping has a number for its label, and
\* with the unnumbered name when there is no label, no entry or no number;
\* and before it has returned, it always has a next step.
C26_NumberFallback ==
    /\ sphase # "done" => ENABLED NameNext
    /\ sphase = "done" =>
        /\ \A f \in FlatTree :
              LET number == NumberOf(f.node)
              IN  NamesAt({"Section"}, StartOf(f.node))
                     = {IF number = None THEN <<name(f.node)>>
                        ELSE <<number[1], " ", name(f.node)>>}
        /\ \A k \in 1..Len(placed) :
              LET in == placed[k].from
                  number == IF in.label = None THEN None ELSE in.label[1].number
              IN  /\ in.finder = "Equation" =>
                        NamesAt({"Equation"}, in.start)
                           = {IF number = None THEN <<"Equation">>
                              ELSE <<"Equation (", number[1], ")">>}
                  /\ (in.finder = "Float" /\ in.env = Some("figure")
                         /\ in.text # None) =>
                        NamesAt({"Figure"}, in.start)
                           = {IF number = None THEN <<"Figure", ": ", in.text[1]>>
                              ELSE <<"Figure", " ", number[1], ": ", in.text[1]>>}

\* the output has a numbered section, an equation whose label has no
\* number, and a figure whose label has one
C26_Witness ==
    /\ sphase = "done"
    /\ \E f \in FlatTree : f.node.number # None
    /\ \E k \in 1..Len(placed) :
          /\ placed[k].from.finder = "Equation"
          /\ placed[k].from.label = Some([name |-> "l", number |-> None])
    /\ \E k \in 1..Len(placed) :
          /\ placed[k].from.finder = "Float"
          /\ placed[k].made # None
          /\ placed[k].from.label = Some([name |-> "l", number |-> Some("1")])

(***************************************************************************)
(* The end-of-content position (compute_end_position, lines 68-77).        *)
(***************************************************************************)
\* the last node of a list of nodes, the last child of that node, and so
\* on: the sections that no later section ends
RECURSIVE LastChain(_)
LastChain(nodes) ==
    IF nodes = <<>> THEN <<>>
    ELSE <<nodes[Len(nodes)]>> \o LastChain(nodes[Len(nodes)].children)

\* the start of the \end command of the first environment named document
DocumentEnds ==
    {environments[i].right_start :
        i \in {j \in 1..Len(environments) : environments[j].name = "document"}}

Pushed ==
    IF items # <<>> /\ items[1].kind = "Entry" THEN Tail(items) ELSE items

\* a symbol as the place where it is selected, its kind and its children
RECURSIVE Outline(_)
Outline(sym) ==
    [at |-> sym.selection_range[1], kind |-> sym.kind,
     children |-> [i \in 1..Len(sym.children) |-> Outline(sym.children[i])]]

\* the members of a set of numbers in rising order
RECURSIVE Rising(_)
Rising(S) ==
    IF S = {} THEN <<>>
    ELSE LET least == CHOOSE x \in S : \A y \in S : x <= y
         IN  <<least>> \o Rising(S \ {least})

\* the section in which position p lies when no environment ends the
\* content: the last section that starts before p, 0 before the first
Owner(p) ==
    LET before == {i \in 1..Len(sections) : SectionStart(i) < p}
    IN  IF before = {} THEN 0 ELSE CHOOSE i \in before : \A j \in before : j <= i

\* the symbols that the finders returned for section s (0: for none), in
\* the order in which they were inserted
Attached(s) ==
    LET here(e) == e.made # None /\ Owner(e.from.start) = s
        mine == SelectSeq(placed, here)
    IN  [k \in 1..Len(mine) |-> Outline(mine[k].made[1])]

\* the sections right below section s (0: at the top), in source order
Below(s) == Rising({i \in 1..Len(sections) : NearestLower(i) = s})

\* the symbol of section s: its child sections, then its own symbols
RECURSIVE ExpectedSection(_)
ExpectedSection(s) ==
    [at |-> SectionStart(s), kind |-> "Section",
     children |-> [k \in 1..Len(Below(s)) |-> ExpectedSection(Below(s)[k])]
                  \o Attached(s)]

\* the place of a finder in find_section_symbols
FinderRank(finder) ==
    CASE finder = "Enumeration" -> 1
      [] finder = "Equation" -> 2
      [] finder = "Float" -> 3
      [] finder = "Theorem" -> 4

\* C28: the symbols are inserted finder by finder (enumerations, equations,
\* floats, theorems); the output is the symbols that lie in no section, in
\* the order of insertion, then the top-level sections in source order;
\* the symbol of a section holds its child sections in source order, then
\* the symbols that lie in it and in none of its children, in the order of
\* insertion.
C28_OutputOrder ==
    /\ \A i \in 1..Len(placed) : \A j \in 1..Len(placed) :
          i < j => FinderRank(placed[i].from.finder)
                      <= FinderRank(placed[j].from.finder)
    /\ (sphase = "done" /\ content = "Latex") =>
          [i \in 1..Len(Pushed) |-> Outline(Pushed[i])]
             = Attached(0)
               \o [k \in 1..Len(Below(0)) |-> ExpectedSection(Below(0)[k])]

\* the output has a symbol that lies in no section and a section with a
\* child section and a symbol of its own that stands before the child in
\* the source and behind it in the output
C28_Witness ==
    /\ sphase = "done"
    /\ Len(Pushed) = 2
    /\ Pushed[1].kind # "Section"
    /\ Pushed[2].kind = "Section"
    /\ Len(Pushed[2].children) = 2
    /\ Pushed[2].children[1].kind = "Section"
    /\ Pushed[2].children[2].kind # "Section"
    /\ Pushed[2].children[2].selection_range[1]
          < Pushed[2].children[1].selection_range[1]

(***************************************************************************)
(* The scope of content() (parser.rs:52-88) and the right delimiter that   *)
(* group() finds behind it (parser.rs:98-104).                             *)
(***************************************************************************)
\* content() returns in this step: its frame leaves the stack
ContentReturns == Running("content") /\ Len(stack') = Len(stack) - 1

\* the next token, or the end of the input, ends a content run of a scope
EndsRun(scope, kind) ==
    \/ kind = "None"
    \/ scope # "Root" /\ kind = "EndGroup"
    \/ scope = "Options" /\ kind = "EndOptions"

\* C29: content() returns exactly when it stands before the end of the
\* input, before an EndGroup in Group or Options scope, or before an
\* EndOptions in Options scope, and it returns without consuming the token;
\* group() behind an Options run that ended before an EndGroup leaves the
\* token where it is and builds its node without a right delimiter.
C29_ScopeEnds ==
    [][/\ Running("content") =>
            /\ ContentReturns <=> EndsRun(Top.scope, PeekKind)
            /\ ContentReturns => pos' = pos
       /\ (Running("group") /\ Top.ret /\ Top.kind = "Options"
              /\ PeekKind = "EndGroup") =>
            /\ pos' = pos
            /\ Len(tree') = Len(tree) + 1
            /\ tree'[Len(tree) + 1].kind = "Options"
            /\ tree'[Len(tree) + 1].right = NoToken]_vars

\* a braced group that has its right delimiter encloses an options group
\* that has none: the options run ended before the EndGroup, which was
\* left for the braced group
C29_Witness ==
    /\ pc = "done"
    /\ \E m \in 1..Len(tree) : \E n \in 1..Len(tree) :
          /\ tree[m].type = "Group" /\ tree[m].kind = "Group"
          /\ tree[m].right # NoToken
          /\ tree[n].type = "Group" /\ tree[n].kind = "Options"
          /\ tree[n].right = NoToken
          /\ tree[m].left < tree[n].left
          /\ tree[n].left < tree[m].right

(***************************************************************************)
(* The ActionManager on its own (server.rs:725-740): handlers push, and    *)
(* after_message takes (server.rs:636-638).  What is pushed and what the   *)
(* calls of take return is written down as it happens.                     *)
(***************************************************************************)
MaxPushes == 3   \* the calls of push in one behaviour
MaxTakes == 2    \* the calls of take in one behaviour

\* two of the values of enum Action (server.rs:715-723)
ActionKinds == {"PublishDiagnostics", "LoadDistribution"}

\* the calls of an operation that have begun and not returned
InFlight(op) ==
    Cardinality({t \in TaskIds : tasks[t].op = op /\ tasks[t].pc \notin {"idle", "done"}})

\* a handler calls push
queue_push_call(t, a) ==
    /\ Len(pushed) + InFlight("action_push") < MaxPushes
    /\ task_start(t, "action_push", "", FALSE, a)

\* after_message calls take
queue_take_call(t) ==
    /\ Len(taken) + InFlight("action_take") < MaxTakes
    /\ task_start(t, "action_take", "", FALSE, <<>>)

\* ActionManager::push, with the action written down
action_push_recorded(t) ==
    /\ action_push_step(t)
    /\ pushed' = Append(pushed, tasks[t].arg)
    /\ UNCHANGED taken

\* ActionManager::take, with the batch written down
action_take_recorded(t) ==
    /\ action_take_step(t)
    /\ taken' = Append(taken, ActionManager_take(actions).returned)
    /\ UNCHANGED pushed

\* the task that ran a call runs the next message
task_again(t) ==
    /\ tasks[t].pc = "done"
    /\ tasks' = [tasks EXCEPT ![t] = NoTask]
    /\ UNCHANGED <<locks, handles_by_token, current_docs, aborted, progress, processes,
                   actions, capabilities, options>>
    /\ NotWorkspace

QueueInit ==
    /\ tasks = [t \in TaskIds |-> NoTask]
    /\ locks = [m \in Mutexes |-> 0]
    /\ handles_by_token = {}
    /\ current_docs = {}
    /\ aborted = {}
    /\ progress = <<>>
    /\ processes = {}
    /\ actions = <<>>
    /\ capabilities = [pull |-> FALSE, progress |-> FALSE]
    /\ pushed = <<>>
    /\ taken = <<>>
    /\ WorkspaceIdle
    /\ ParserIdle
    /\ SectionIdle
    /\ ServerIdle

QueueNext ==
    \E t \in TaskIds :
        \/ \E a \in ActionKinds : queue_push_call(t, a)
        \/ queue_take_call(t)
        \/ action_push_lock(t)
        \/ action_push_recorded(t)
        \/ action_take_lock(t)
        \/ action_take_recorded(t)
        \/ task_again(t)

QueueSpec == QueueInit /\ [][QueueNext]_vars

\* the batches one behind the other
RECURSIVE Concat(_)
Concat(batches) ==
    IF batches = <<>> THEN <<>> ELSE Head(batches) \o Concat(Tail(batches))

\* C31: at every moment the batches that the calls of take returned, one
\* behind the other in the order of the calls, followed by the queue, are
\* the actions in the order in which they were pushed: none is lost, none
\* is returned twice, and what is pushed after a take waits for the next;
\* and every take leaves the queue empty.
C31_PushedOnceInOrder ==
    /\ [](Concat(taken) \o actions = pushed)
    /\ [][taken' # taken => actions' = <<>>]_vars

\* two calls of take have returned: the first two different actions in
\* the order of their pushes, the second the action pushed after it
C31_Witness ==
    /\ Len(taken) = 2
    /\ Len(taken[1]) = 2
    /\ taken[1][1] # taken[1][2]
    /\ Len(taken[2]) = 1
    /\ pushed = taken[1] \o taken[2]

(***************************************************************************)
(* The BuildEngine under concurrent calls of execute, cancel and is_busy   *)
(* (build.rs:38-142), without the other managers of the server.            *)
(***************************************************************************)
\* a ProgressToken that no execute has made
OtherToken == <<"other", 0>>

\* the calls on the BuildEngine, with their arguments
EngineCalls ==
    {<<"is_busy", "", FALSE, <<>>>>,
     <<"execute", "a", TRUE, <<>>>>,
     <<"execute", "b", FALSE, <<>>>>}
    \cup {<<"cancel", "", FALSE, k>> : k \in {AllBuilds, OtherToken} \cup
                                              {TokenOf_Task(t) : t \in TaskIds}}

\* the server after initialize, with the capabilities of some client
EngineInit ==
    /\ tasks = [t \in TaskIds |-> NoTask]
    /\ locks = [m \in Mutexes |-> 0]
    /\ handles_by_token = {}
    /\ current_docs = {}
    /\ aborted = {}
    /\ progress = <<>>
    /\ processes = {}
    /\ actions = <<>>
    /\ capabilities \in [pull : {FALSE}, progress : BOOLEAN]
    /\ pushed = <<>>
    /\ taken = <<>>
    /\ WorkspaceIdle
    /\ ParserIdle
    /\ SectionIdle
    /\ ServerIdle

EngineNext ==
    \E t \in TaskIds :
        \/ \E c \in EngineCalls : task_start(t, c[1], c[2], c[3], c[4])
        \/ is_busy_lock(t) \/ is_busy_read(t)
        \/ cancel_lock(t) \/ cancel_abort(t)
        \/ execute_lock_handles(t) \/ execute_register(t) \/ execute_is_file(t)
        \/ execute_lock_docs(t) \/ execute_enter(t)
        \/ \E ok \in BOOLEAN : execute_begin_progress(t, ok)
        \/ \E ok \in BOOLEAN : execute_spawn(t, ok)
        \/ \E st \in {"Success", "Error", "Failure", "Cancelled"} : execute_build(t, st)
        \/ execute_end_progress(t)
        \/ execute_lock_remove(t) \/ execute_remove(t)
        \/ execute_lock_leave(t) \/ execute_leave(t)

EngineSpec == EngineInit /\ [][EngineNext]_vars

\* task t is inside execute
Executing(t) == tasks[t].op = "execute" /\ tasks[t].pc \notin {"idle", "done"}

\* task t is inside execute between its entry in current_docs and its return
InBuild(t) == tasks[t].op = "execute" /\ tasks[t].pc \in Building

\* the build process of task t runs
ProcessRuns(t) == At(t, "execute", "running")

\* C32: no two build processes run for the same document URI at any time;
\* an execute that finds the URI of its document in current_docs returns
\* Success at once, enters nothing and starts no process, whatever the
\* other tasks do in between.
C32_OneProcessPerDocument ==
    /\ [](\A t, u \in TaskIds :
            ProcessRuns(t) /\ ProcessRuns(u) /\ tasks[t].uri = tasks[u].uri => t = u)
    /\ [][\A t \in TaskIds :
            At(t, "execute", "enter") /\ Steps(t) /\ tasks[t].uri \in current_docs =>
                /\ tasks'[t].pc = "done"
                /\ tasks'[t].status = "Success"
                /\ UNCHANGED <<current_docs, processes, progress>>]_vars
    /\ [](\A t \in TaskIds :
            TokenOf_Task(t) \in processes =>
                tasks[t].op = "execute" /\ tasks[t].pc \in Building \cup {"done"})

\* while the build process of one task runs, the execute of another task
\* for the same document has returned Success without a process
C32_Witness ==
    \E t, u \in TaskIds :
        /\ ProcessRuns(t)
        /\ tasks[u].op = "execute" /\ tasks[u].file /\ tasks[u].pc = "done"
        /\ tasks[u].status = "Success"
        /\ TokenOf_Task(u) \notin processes

\* C33: the handle that an execute registered is out of handles_by_token
\* when that execute has returned, so handles_by_token is empty when no
\* execute is in progress.
C33_HandlesRemoved ==
    /\ \A t \in TaskIds :
          tasks[t].op = "execute" /\ tasks[t].pc = "done" =>
              TokenOf_Task(t) \notin handles_by_token
    /\ (\A t \in TaskIds : ~Executing(t)) => handles_by_token = {}

UnderHandle(t) == tasks[t].op = "execute" /\ tasks[t].pc \in {"build", "running"}

\* C35: cancel of a registered token aborts that handle and no other;
\* cancel of the token of all builds aborts the handle of every build that
\* runs; cancel of any other token aborts nothing; a build whose handle is
\* aborted when the Abortable is polled gets the status Cancelled, which
\* execute returns; the status Cancelled is that of an aborted handle only.
C35_Cancel ==
    /\ [][\A t \in TaskIds :
            At(t, "cancel", "locked") /\ Steps(t) =>
                /\ aborted \subseteq aborted'
                /\ tasks[t].arg \in handles_by_token =>
                      aborted' = aborted \cup {tasks[t].arg}
                /\ tasks[t].arg = AllBuilds =>
                      /\ \A u \in TaskIds : UnderHandle(u) => TokenOf_Task(u) \in aborted'
                      /\ aborted' \subseteq aborted \cup handles_by_token
                /\ tasks[t].arg \notin handles_by_token \cup {AllBuilds} =>
                      aborted' = aborted]_vars
    /\ [][\A t \in TaskIds :
            UnderHandle(t) /\ Steps(t) /\ TokenOf_Task(t) \in aborted =>
                tasks'[t].pc = "end" /\ tasks'[t].status = "Cancelled"]_vars
    /\ [][\A t \in TaskIds :
            tasks[t].status = "Cancelled" /\ Steps(t) =>
                tasks'[t].status = "Cancelled"]_vars
    /\ [](\A t \in TaskIds :
            tasks[t].status = "Cancelled" => TokenOf_Task(t) \in aborted)
    /\ [](\A t \in TaskIds : UnderHandle(t) => TokenOf_Task(t) \in handles_by_token)

\* a cancel has returned, and the execute whose process it stopped has
\* returned Cancelled
C35_Witness ==
    \E t, u \in TaskIds :
        /\ tasks[t].op = "execute" /\ tasks[t].pc = "done"
        /\ tasks[t].status = "Cancelled"
        /\ TokenOf_Task(t) \in processes
        /\ tasks[u].op = "cancel" /\ tasks[u].pc = "done"

\* the places of the message <<token, kind>> in progress
PlacesOf(token, kind) == {i \in DOMAIN progress : progress[i] = <<token, kind>>}

\* C36: every End in progress comes after a create request and a Begin
\* for its token, in this order; a token has at most one Begin and one End;
\* an execute that has returned after it sent Begin has sent End; a client
\* without work-done progress support gets no progress message.
C36_ProgressPaired ==
    /\ \A i \in DOMAIN progress :
          progress[i][2] = "End" =>
              \E j, k \in 1..i :
                  /\ j < k /\ k < i
                  /\ progress[j] = <<progress[i][1], "Create">>
                  /\ progress[k] = <<progress[i][1], "Begin">>
    /\ \A t \in TaskIds :
          /\ Cardinality(PlacesOf(TokenOf_Task(t), "Begin")) <= 1
          /\ Cardinality(PlacesOf(TokenOf_Task(t), "End")) <= 1
          /\ tasks[t].pc = "done" /\ PlacesOf(TokenOf_Task(t), "Begin") # {} =>
                PlacesOf(TokenOf_Task(t), "End") # {}
    /\ ~capabilities.progress => progress = <<>>

(***************************************************************************)
(* The tokens of the input in the tree that parse returns                  *)
(* (parser.rs:52-173).                                                     *)
(***************************************************************************)
RECURSIVE TokensOf(_)
\* the tokens that the node n and its descendants hold, in the order of the
\* tree: the left delimiter or the name, the children, the right delimiter
TokensOf(n) ==
    LET cs == ChildSeq(Parsed, n)
        below == Concat([i \in 1..Len(cs) |-> TokensOf(cs[i])])
        one(tok) == IF tok = NoToken THEN <<>> ELSE <<tok>>
    IN  CASE tree[n].type = "Group" -> one(tree[n].left) \o below \o one(tree[n].right)
          [] tree[n].type = "Command" -> one(tree[n].name) \o below
          [] tree[n].type = "Text" -> tree[n].words \o below
          [] tree[n].type \in {"Comma", "Math"} -> one(tree[n].token) \o below
          [] OTHER -> below

\* the token i lies between the left delimiter of a group and the last
\* token of that group
InGroup(i) ==
    \E g \in Nodes : tree[g].type = "Group" /\ tree[g].left < i /\ i <= LastTok(g)

\* the token i is held by a frame of the stack or by a node of the tree
Kept(i) ==
    \/ i \in Held
    \/ \E f \in 1..Len(stack) :
          \/ stack[f].tok = i
          \/ \E k \in 1..Len(stack[f].words) : stack[f].words[k] = i

\* the token that a node holds in a field is of the kind of that field
RightField(n) ==
    /\ tree[n].left # NoToken =>
          tokens[tree[n].left].kind =
              (IF tree[n].kind = "Group" THEN "BeginGroup" ELSE "BeginOptions")
    /\ tree[n].right # NoToken =>
          tokens[tree[n].right].kind =
              (IF tree[n].kind = "Group" THEN "EndGroup" ELSE "EndOptions")
    /\ tree[n].name # NoToken => tokens[tree[n].name].kind = "Command"
    /\ tree[n].token # NoToken => tokens[tree[n].token].kind = tree[n].type
    /\ \A k \in 1..Len(tree[n].words) :
          tokens[tree[n].words[k]].kind \in {"Word", "BeginOptions", "EndOptions"}

\* C37: the tokens that the tree of parse holds, read in the order of the
\* tree, are the tokens of the input in source order, each once and each
\* in a field of its kind, without the closing braces that content() met
\* in Root scope: those are the only tokens consumed without being kept,
\* and they lie in no group.
C37_TokensOnce ==
    /\ [](pc = "done" =>
            LET held == TokensOf(root)
                lost == (1..Len(tokens)) \ {held[k] : k \in 1..Len(held)}
            IN  /\ \A k \in 1..(Len(held) - 1) : held[k] < held[k + 1]
                /\ \A k \in 1..Len(held) : held[k] \in 1..Len(tokens)
                /\ \A n \in Nodes : RightField(n)
                /\ \A i \in lost : tokens[i].kind = "EndGroup" /\ ~InGroup(i))
    /\ [][pos' # pos =>
            /\ pos' = pos + 1
            /\ \E i \in {pos} : AtStrayCloser <=> ~Kept(i)']_vars

\* parse has returned a tree with a closed group and a text on an input
\* with a closing brace that was met in Root scope
C37_Witness ==
    /\ pc = "done"
    /\ Len(tokens) = MaxTokens
    /\ \E i \in 1..Len(tokens) : i \notin Held /\ tokens[i].kind = "EndGroup"
    /\ \E n \in Nodes : tree[n].type = "Group" /\ tree[n].right # NoToken
    /\ \E n \in Nodes : tree[n].type = "Text"

(***************************************************************************)
(* The ranges that set_full_range gives to the nodes of the section tree   *)
(* (section/mod.rs:122-137).                                               *)
(***************************************************************************)
\* both ends of the range inner lie in the range outer
Within(inner, outer) ==
    /\ outer[1] <= inner[1] /\ inner[1] <= outer[2]
    /\ outer[1] <= inner[2] /\ inner[2] <= outer[2]

\* C38: once the ranges are set, the range of a child lies in the range of
\* its parent, the range of a last child ends where the range of its parent
\* ends, and the range of a node with a next sibling ends where the range
\* of that sibling begins, so that the ranges of siblings do not overlap.
C38_NestedRanges ==
    AfterFullRange =>
        \A f, g \in FlatTree :
            /\ g.section = f.parent =>
                  /\ Within(f.node.full_range, g.node.full_range)
                  /\ f.next = 0 => f.node.full_range[2] = g.node.full_range[2]
            /\ g.section = f.next => f.node.full_range[2] = g.node.full_range[1]
            /\ g.parent = f.parent /\ f.section < g.section =>
                  f.node.full_range[2] <= g.node.full_range[1]

(***************************************************************************)
(* ConfigManager::push (config.rs:54-63) among the other tasks.            *)
(***************************************************************************)
\* the calls on the ConfigManager, with their arguments
ConfigCalls ==
    {<<"pull_configuration", "", FALSE, <<>>>>}
    \cup {<<"push", "", FALSE, a>> : a \in {<<o>> : o \in OptionSet} \cup {<<>>}}

\* the server after initialize, with the capabilities of some client and
\* one open document
ConfigInit ==
    /\ tasks = [t \in TaskIds |-> NoTask]
    /\ locks = [m \in Mutexes |-> 0]
    /\ handles_by_token = {}
    /\ current_docs = {}
    /\ aborted = {}
    /\ progress = <<>>
    /\ processes = {}
    /\ actions = <<>>
    /\ capabilities \in [pull : BOOLEAN, progress : {FALSE}]
    /\ pushed = <<>>
    /\ taken = <<>>
    /\ documents = <<Opened("a", "x", DefaultOptions)>>
    /\ ruri = ""
    /\ rstack = <<>>
    /\ visited = {}
    /\ results = <<>>
    /\ rpc = "idle"
    /\ snapshots = {}
    /\ ParserIdle
    /\ SectionIdle
    /\ ServerIdle

ConfigNext ==
    \E t \in TaskIds :
        \/ \E c \in ConfigCalls : task_start(t, c[1], c[2], c[3], c[4])
        \/ push_parse(t) \/ push_lock(t) \/ push_store(t)
        \/ \E o \in OptionSet : pull_sections(t, o)
        \/ pull_lock(t) \/ pull_compare(t) \/ pull_get_lock(t) \/ pull_get(t)
        \/ pull_reparse(t)

ConfigSpec == ConfigInit /\ [][ConfigNext]_vars

\* C39: push of a value that decodes to no Options logs the error and
\* returns without a step that takes the lock or writes the options; push
\* of a value that decodes to Options goes on to the lock and stores there
\* exactly the decoded value; no other step of push writes the options.
C39_PushDecodes ==
    /\ [][\A t \in TaskIds :
            At(t, "push", "start") /\ Steps(t) =>
                IF tasks[t].arg = <<>>
                THEN /\ tasks'[t].pc = "done"
                     /\ tasks'[t].status = "Invalid configuration"
                     /\ UNCHANGED <<options, locks>>
                ELSE /\ tasks'[t].pc = "lock"
                     /\ tasks'[t].arg = tasks[t].arg
                     /\ UNCHANGED options]_vars
    /\ [][\A t \in TaskIds :
            At(t, "push", "lock") /\ Steps(t) =>
                /\ tasks'[t].pc = "locked"
                /\ tasks'[t].arg = tasks[t].arg
                /\ UNCHANGED options]_vars
    /\ [][\A t \in TaskIds :
            At(t, "push", "locked") /\ Steps(t) =>
                /\ options' = tasks[t].arg[1]
                /\ tasks'[t].pc = "done"
                /\ tasks'[t].status = "None"]_vars
    /\ [](\A t \in TaskIds :
            tasks[t].op = "push" /\ tasks[t].pc \in {"lock", "locked"} =>
                tasks[t].arg # <<>>)

\* one push has stored options other than the default ones, another push,
\* of a value that does not decode, has logged the error and returned, and
\* the stored options are not the default ones
C39_Witness ==
    \E t, u \in TaskIds :
        /\ tasks[t].op = "push" /\ tasks[t].pc = "done" /\ tasks[t].status = "None"
        /\ tasks[u].op = "push" /\ tasks[u].pc = "done"
        /\ tasks[u].status = "Invalid configuration"
        /\ options # DefaultOptions

====
